---- MODULE Spec2Model ----
(***************************************************************************)
(* Dot workers: the job-update and job-setup orchestration pipelines and   *)
(* the file worker (services/update/handler.py, services/setup/handler.py, *)
(* services/file/handler.py) together with the record-store, notification, *)
(* channel and filing helpers they call (utils/airtable.py,                *)
(* utils/connect.py, utils/setup.py, utils/file.py).                       *)
(*                                                                         *)
(* A worker executes one request at a time.  Every blocking call the       *)
(* handler makes to a collaborator is one step of the worker, so that the  *)
(* steps of different workers interleave exactly where the HTTP calls of   *)
(* concurrent requests can.                                                *)
(***************************************************************************)
EXTENDS Integers, Sequences, FiniteSets, TLC

VARIABLES
    projects,   \* Projects table: sequence of records, record id = index
    updates,    \* Updates table: sequence of records, record id = index
    clients,    \* Clients table: client code -> record
    trackers,   \* Tracker table: sequence of records
    runs,       \* worker -> the locals of the request it is processing
    started,    \* number of further requests the workers have taken
    overlap,    \* history: client codes whose reservations have overlapped
    issued,     \* history: the job numbers reserved, in order
    cache,      \* utils/file.py: _access_token and _token_expires_at
    clock       \* time.time(), in seconds

vars == <<projects, updates, clients, trackers, runs, started, overlap, issued,
          cache, clock>>

-----------------------------------------------------------------------------
(* Bounds *)

MaxRequests == 1

-----------------------------------------------------------------------------
(* Python values.  None, True and False are tokens so that a field may     *)
(* hold either a string or one of them, as a JSON value can.               *)

None == "None"
PyTrue == "True"
PyFalse == "False"

\* bool(v) for the values that occur: None, the empty string and False
\* are falsy
Truthy(v) == v \notin {None, "", PyFalse}

\* a or b
PyOr(a, b) == IF Truthy(a) THEN a ELSE b

\* Text that is inspected character by character is a sequence of
\* characters; str.split() splits it on runs of whitespace.
Whitespace == {" ", "\t", "\n"}

RECURSIVE SplitFrom(_, _, _)
SplitFrom(s, i, word) ==
    IF i > Len(s)
    THEN IF word = <<>> THEN <<>> ELSE <<word>>
    ELSE IF s[i] \in Whitespace
         THEN IF word = <<>>
              THEN SplitFrom(s, i + 1, <<>>)
              ELSE <<word>> \o SplitFrom(s, i + 1, <<>>)
         ELSE SplitFrom(s, i + 1, Append(word, s[i]))

Split(s) == SplitFrom(s, 1, <<>>)

StripChars == {"\"", "'", "[", "]", "(", ")"}

RECURSIVE LStripSet(_, _)
LStripSet(s, cs) ==
    IF s # <<>> /\ Head(s) \in cs THEN LStripSet(Tail(s), cs) ELSE s

RECURSIVE RStripSet(_, _)
RStripSet(s, cs) ==
    IF s # <<>> /\ s[Len(s)] \in cs
    THEN RStripSet(SubSeq(s, 1, Len(s) - 1), cs)
    ELSE s

StripSet(s, cs) == RStripSet(LStripSet(s, cs), cs)

\* connect._get_first_name: the result, or an IndexError when the name is
\* non-empty but holds no word
GetFirstNameRaises(sender_name) ==
    sender_name # <<>> /\ Split(sender_name) = <<>>

GetFirstName(sender_name) ==
    IF sender_name = <<>>
    THEN <<"t", "h", "e", "r", "e">>
    ELSE LET first == StripSet(Split(sender_name)[1], StripChars)
         IN  IF first # <<>> THEN first ELSE <<"t", "h", "e", "r", "e">>

-----------------------------------------------------------------------------
(* Dictionaries.  A key that a dict does not hold is Absent; dict.get      *)
(* returns its default for it (None when no default is given).             *)

Absent == "<absent>"

DictGet(d, k, default) == IF d[k] = Absent THEN default ELSE d[k]

Get(d, k) == DictGet(d, k, None)

-----------------------------------------------------------------------------
(* Dates.  A date is a day number; day 0 is a Monday, so date.weekday()    *)
(* is the day number modulo 7.  isoformat() / strftime render  *)
(* a date as a string, one string per date.                                *)

Weekday(d) == d % 7

IsoFormat(d) == "day-" \o ToString(d)

\* GetWorkingDaysFromToday counting every day of the calendar
CalendarDaysFromToday(today, days) == IsoFormat(today + days)

\* _get_working_days_from_today(days): the loop of handler.py:55-61
RECURSIVE WorkingDaysLoop(_, _, _)
WorkingDaysLoop(current, added, days) ==
    IF added < days
    THEN LET next == current + 1
         IN  WorkingDaysLoop(next,
                             IF Weekday(next) < 5 THEN added + 1 ELSE added,
                             days)
    ELSE current

GetWorkingDaysFromToday(today, days) ==
    IsoFormat(WorkingDaysLoop(today, 0, days))

-----------------------------------------------------------------------------
(* The extraction client's raw output is text; it is modelled as a         *)
(* sequence of tokens: the three-backtick fence, a language tag, a         *)
(* newline, a blank, a run of prose, or one JSON value, written on one     *)
(* line or on several.                                                     *)

FENCE == [t |-> "fence"]
LANG == [t |-> "json"]
NL == [t |-> "\n"]
SP == [t |-> " "]
PROSE == [t |-> "prose"]
Json(v) == [t |-> "value", v |-> v]

\* A JSON value written on several lines: its first line, a newline and
\* the rest of it
JsonHead(v) == [t |-> "head", v |-> v]
JsonTail(v) == [t |-> "tail", v |-> v]
JsonLines(v) == <<JsonHead(v), NL, JsonTail(v)>>

BlankTokens == {NL, SP}

\* str.strip()
Strip(content) == StripSet(content, BlankTokens)

\* content.split(newline, 1)[1]: what follows the first newline
RECURSIVE AfterFirstNewline(_)
AfterFirstNewline(content) ==
    IF content = <<>> THEN <<>>
    ELSE IF Head(content) = NL THEN Tail(content)
    ELSE AfterFirstNewline(Tail(content))

HasNewline(content) == \E i \in 1..Len(content) : content[i] = NL

\* content.rsplit(fence, 1)[0]: what precedes the last fence
RECURSIVE BeforeLastFence(_)
BeforeLastFence(content) ==
    IF content = <<>> THEN <<>>
    ELSE IF content[Len(content)] = FENCE
         THEN SubSeq(content, 1, Len(content) - 1)
         ELSE BeforeLastFence(SubSeq(content, 1, Len(content) - 1))

\* StripMarkdownJson dropping the opening fence alone, never the rest
\* of its line
StripFenceOnly(raw) ==
    LET c0 == Strip(raw)
        c1 == IF c0 # <<>> /\ Head(c0) = FENCE THEN Tail(c0) ELSE c0
        c2 == IF c1 # <<>> /\ c1[Len(c1)] = FENCE
              THEN BeforeLastFence(c1)
              ELSE c1
    IN  Strip(c2)

\* _strip_markdown_json
StripMarkdownJson(raw) ==
    LET c0 == Strip(raw)
        c1 == IF c0 # <<>> /\ Head(c0) = FENCE
              THEN IF HasNewline(c0) THEN AfterFirstNewline(c0) ELSE Tail(c0)
              ELSE c0
        c2 == IF c1 # <<>> /\ c1[Len(c1)] = FENCE
              THEN BeforeLastFence(c1)
              ELSE c1
    IN  Strip(c2)

\* json.loads: the text must be exactly one JSON value (blanks around it
\* are allowed); anything else raises JSONDecodeError
JsonDecodeError(content) ==
    LET c == Strip(content)
    IN  ~ \/ Len(c) = 1 /\ c[1].t = "value"
          \/ Len(c) = 3 /\ c[1].t = "head" /\ c = JsonLines(c[1].v)

JsonLoads(content) == Strip(content)[1].v

\* The JSON values the extraction may produce for an update: an object
\* with some of the keys of the prompt's schema, or a value that is not
\* an object.
NoTeamsMessage == [kind |-> "absent", subject |-> Absent, body |-> Absent]
NullTeamsMessage == [kind |-> "null", subject |-> Absent, body |-> Absent]

Analysis(summary, due, stage, status, withClient, teamsMessage) ==
    [object |-> TRUE, updateSummary |-> summary, updateDue |-> due,
     stage |-> stage, status |-> status, withClient |-> withClient,
     teamsMessage |-> teamsMessage]

JsonArray ==
    [object |-> FALSE, updateSummary |-> Absent, updateDue |-> Absent,
     stage |-> Absent, status |-> Absent, withClient |-> Absent,
     teamsMessage |-> NoTeamsMessage]

NoAnalysis ==
    [object |-> TRUE, updateSummary |-> Absent, updateDue |-> Absent,
     stage |-> Absent, status |-> Absent, withClient |-> Absent,
     teamsMessage |-> NoTeamsMessage]

-----------------------------------------------------------------------------
(* The record store (Airtable).  A record id is the index of the record    *)
(* in its table; a field the record does not hold is Absent.               *)

\* A URL is a sequence of parts; the empty sequence is the empty string.
NoUrl == <<>>

HexDigitsAndDashes == {"a1b2-c3d4", "e5f6-0789"}

\* re.search(groupId=([a-f0-9-]+), channel_url) of get_project: the part
\* that follows the first "groupId=", when it starts with hex digits or
\* dashes
RECURSIVE GroupIdOf(_)
GroupIdOf(url) ==
    IF Len(url) < 2 THEN None
    ELSE IF url[1] = "groupId=" /\ url[2] \in HexDigitsAndDashes THEN url[2]
    ELSE GroupIdOf(Tail(url))

Project(jobNumber, name, stage, status, withClient, channelId, channelUrl) ==
    [JobNumber |-> jobNumber, ProjectName |-> name, Stage |-> stage,
     Status |-> status, WithClient |-> withClient, Update |-> Absent,
     UpdateDue |-> Absent, Live |-> Absent, Description |-> <<>>,
     ProjectOwner |-> Absent, TeamsChannelId |-> channelId,
     ChannelUrl |-> channelUrl, FilesUrl |-> Absent]

\* Traffic table: the email bodies the router logged, by internetMessageId
TrafficEmailBody(internet_message_id) ==
    CASE internet_message_id = "msg-1" -> "Finished the landing page design"
      [] internet_message_id = "msg-2" -> ""
      [] OTHER -> None

\* airtable.get_email_body; ok is whether the store answered the request
GetEmailBodyOf(internet_message_id, ok) ==
    IF internet_message_id = "" \/ ~ok
    THEN None
    ELSE TrafficEmailBody(internet_message_id)

NoProjectInfo ==
    [recordId |-> 0, jobNumber |-> "", projectName |-> "", stage |-> "",
     status |-> "", withClient |-> PyFalse, currentUpdate |-> "",
     channelId |-> None, channelUrl |-> NoUrl, filesUrl |-> None,
     teamId |-> None]

\* airtable.get_project: <<record_id, project_info, error>>; the store
\* answers with the first record whose Job Number matches
GetProjectOf(table, job_number, ok) ==
    LET ids == {i \in 1..Len(table) : table[i].JobNumber = job_number}
    IN  IF job_number = "" THEN <<0, NoProjectInfo, "Missing API key or job number">>
        ELSE IF ~ok THEN <<0, NoProjectInfo, "Error looking up job">>
        ELSE IF ids = {} THEN <<0, NoProjectInfo, "Job not found">>
        ELSE LET record_id == CHOOSE i \in ids : \A j \in ids : i <= j
                 fields == table[record_id]
             IN  <<record_id,
                   [recordId |-> record_id,
                    jobNumber |-> job_number,
                    projectName |-> DictGet(fields, "ProjectName", "Unknown"),
                    stage |-> DictGet(fields, "Stage", "Unknown"),
                    status |-> DictGet(fields, "Status", "Unknown"),
                    withClient |-> DictGet(fields, "WithClient", PyFalse),
                    currentUpdate |-> DictGet(fields, "Update", ""),
                    channelId |-> Get(fields, "TeamsChannelId"),
                    channelUrl |-> fields.ChannelUrl,
                    filesUrl |-> Get(fields, "FilesUrl"),
                    teamId |-> GroupIdOf(fields.ChannelUrl)],
                   None>>

\* _SKIP_VALUES
SKIP_VALUES == {"Unknown", "unknown", "", None}

\* UpdateProjectFields leaving out False like the other skipped values
UpdateProjectFieldsSkippingFalse(stage, status, with_client) ==
    LET Field(value) ==
            IF value \in SKIP_VALUES \cup {PyFalse} THEN Absent ELSE value
    IN  [Stage |-> Field(stage), Status |-> Field(status),
         WithClient |-> Field(with_client)]

\* UpdateProjectFields sending every value it is given but None
UpdateProjectFieldsUnfiltered(stage, status, with_client) ==
    LET Field(value) == IF value = None THEN Absent ELSE value
    IN  [Stage |-> Field(stage), Status |-> Field(status),
         WithClient |-> Field(with_client)]

\* The fields of a patch of the update pipeline; Absent: not in the patch
NoFields == [Stage |-> Absent, Status |-> Absent, WithClient |-> Absent]

\* update_project, lines 403-412: the fields dict built from the kwargs
\* stage, status, with_client
UpdateProjectFields(stage, status, with_client) ==
    LET Field(value) ==
            IF value \in SKIP_VALUES /\ value # PyFalse THEN Absent ELSE value
    IN  [Stage |-> Field(stage), Status |-> Field(status),
         WithClient |-> Field(with_client)]

\* ApplyFields replacing the record by the patch: a field the patch does
\* not name is cleared
ApplyFieldsReplacing(record, fields) ==
    [record EXCEPT
        !.Stage = fields.Stage,
        !.Status = fields.Status,
        !.WithClient = fields.WithClient,
        !.Update = Absent,
        !.UpdateDue = Absent]

\* The store applying a patch to a project record
ApplyFields(record, fields) ==
    [record EXCEPT
        !.Stage = IF fields.Stage = Absent THEN @ ELSE fields.Stage,
        !.Status = IF fields.Status = Absent THEN @ ELSE fields.Status,
        !.WithClient = IF fields.WithClient = Absent THEN @ ELSE fields.WithClient]

\* write_update, lines 523-531: the record posted to the Updates table
UpdateRecord(job_record_id, update_text, update_due) ==
    [ProjectLink |-> job_record_id, Update |-> update_text,
     UpdateDue |-> IF Truthy(update_due) THEN update_due ELSE Absent]

-----------------------------------------------------------------------------
(* utils/file.py.  The names the module defines at top level.              *)

\* Lines 27-29: the token cache of a process that has just started
NoToken == [access_token |-> None, token_expires_at |-> 0]

FileModule ==
    {"_get_access_token", "_dropbox_headers", "_dropbox_move",
     "_dropbox_create_folder", "_dropbox_upload", "_dropbox_list_folder",
     "_strip_timestamp_prefix", "_find_file_in_transfer",
     "_build_job_folder_path", "file_to_dropbox", "create_job_folder",
     "_create_eml_filename", "_create_eml_content"}

-----------------------------------------------------------------------------
(* A worker's run: the locals of process_update / process_setup, the       *)
(* response it returned, and what it asked of its collaborators.           *)

NoResult == [set |-> FALSE, success |-> PyFalse, skipped |-> FALSE, recordId |-> 0]

Result(success, skipped, recordId) ==
    [set |-> TRUE, success |-> success, skipped |-> skipped, recordId |-> recordId]

PyBool(b) == IF b THEN PyTrue ELSE PyFalse

NoResponse == [code |-> 0, success |-> None, error |-> "", escaped |-> FALSE]

NoCalls ==
    [get_email_body |-> 0, get_project |-> 0, file |-> 0, extract |-> 0,
     write_update |-> 0, update_project |-> 0, post_to_teams |-> 0,
     send_confirmation |-> 0, send_failure |-> 0,
     get_next_job_number |-> 0, create_project |-> 0, create_tracker |-> 0,
     setup_teams_channel |-> 0, get_client_sharepoint |-> 0,
     send_setup_confirmation |-> 0]

NoUpdateData ==
    [jobNumber |-> "", internetMessageId |-> "", senderEmail |-> "",
     senderName |-> <<>>, teamId |-> None, teamsChannelId |-> None,
     hasAttachments |-> FALSE, attachmentNames |-> <<>>]

\* UpdateRun with a results record whose email entry starts as a failure
UpdateRunPresumingEmail(data) ==
    [route |-> "update", pc |-> "idle", data |-> data,
     email_body |-> None, job_record_id |-> 0, project_info |-> NoProjectInfo,
     team_id |-> data.teamId, channel_id |-> data.teamsChannelId,
     analysis |-> NoAnalysis, update_summary |-> None, update_due |-> None,
     results |-> [file |-> NoResult, airtable |-> NoResult,
                  teams |-> NoResult, email |-> Result(PyFalse, FALSE, 0)],
     response |-> NoResponse, calls |-> NoCalls, failure |-> "",
     mail |-> <<>>, posts |-> <<>>, patches |-> <<>>, written |-> <<>>]

\* process_update before its first statement
UpdateRun(data) ==
    [route |-> "update", pc |-> "idle", data |-> data,
     email_body |-> None, job_record_id |-> 0, project_info |-> NoProjectInfo,
     team_id |-> data.teamId, channel_id |-> data.teamsChannelId,
     analysis |-> NoAnalysis, update_summary |-> None, update_due |-> None,
     results |-> [file |-> NoResult, airtable |-> NoResult,
                  teams |-> NoResult, email |-> NoResult],
     response |-> NoResponse, calls |-> NoCalls, failure |-> "",
     mail |-> <<>>,      \* emails handed to the postman, in order
     posts |-> <<>>,     \* channel posts handed to the teamsbot
     patches |-> <<>>,   \* patches of project records sent to the store
     written |-> <<>>]   \* ids of the update records the store created

\* return jsonify(...), code
Return(run, code, success, error) ==
    [run EXCEPT !.pc = "done",
                !.response = [code |-> code, success |-> success,
                              error |-> error, escaped |-> FALSE]]

\* An exception leaves the handler: the framework answers 500
Escape(run, error) ==
    [run EXCEPT !.pc = "done",
                !.response = [code |-> 500, success |-> None,
                              error |-> error, escaped |-> TRUE]]

\* The first error of the run: error_msg, lookup_error, write_error,
\* reserve_error, project_error, or the exception that was raised
Failing(run, error) ==
    [run EXCEPT !.failure = IF @ = "" THEN error ELSE @]

\* connect.send_failure, up to its return or to the IndexError of
\* _get_first_name; sent is whether the postman accepted the email
SendFailure(run, error_message, sent) ==
    IF GetFirstNameRaises(run.data.senderName)
    THEN [run EXCEPT !.calls.send_failure = @ + 1]
    ELSE [run EXCEPT !.calls.send_failure = @ + 1,
                     !.mail = Append(@, [kind |-> "failure",
                                         to |-> run.data.senderEmail,
                                         error |-> error_message,
                                         intro |-> "",
                                         ok |-> sent])]

\* except Exception: send_failure, then 500 (update 334-342, setup 423-431)
Unhandled(run, error, sent) ==
    IF GetFirstNameRaises(run.data.senderName)
    THEN Escape(SendFailure(Failing(run, error), error, sent), "IndexError")
    ELSE Return(SendFailure(Failing(run, error), error, sent), 500, PyFalse, error)

\* str(e) of the json.JSONDecodeError of a text that holds no JSON value
DecodeErrorText == "Expecting value: line 1 column 1 (char 0)"

\* except json.JSONDecodeError: send_failure, then 500 (update 325-332,
\* setup 414-421); an exception raised here is not caught again
InvalidJson(run, sent) ==
    LET notified == SendFailure(Failing(run, "JSONDecodeError"),
                                "Claude returned invalid JSON: " \o DecodeErrorText,
                                sent)
    IN  IF GetFirstNameRaises(run.data.senderName)
        THEN Escape(notified, "IndexError")
        ELSE Return(notified, 500, PyFalse, "Invalid JSON: " \o DecodeErrorText)

\* A fatal step inside the try block: send_failure, then return code
Fatal(run, error, code, sent) ==
    IF GetFirstNameRaises(run.data.senderName)
    THEN Unhandled(SendFailure(Failing(run, error), error, sent), "IndexError", sent)
    ELSE Return(SendFailure(Failing(run, error), error, sent), code, PyFalse, error)

-----------------------------------------------------------------------------
(* services/update/handler.py: process_update                              *)

StoreUnchanged ==
    UNCHANGED <<projects, updates, clients, trackers, overlap, issued, cache, clock>>

\* StartUpdate without the check of internetMessageId
StartUpdateUnchecked(w, data) ==
    /\ runs[w].route = "update"
    /\ runs[w].pc = "idle"
    /\ LET run == UpdateRun(data)
       IN  runs' = [runs EXCEPT ![w] =
              IF ~Truthy(data.jobNumber)
              THEN Return(run, 400, PyFalse, "No job number provided")
              ELSE IF data.hasAttachments /\ data.attachmentNames # <<>>
              THEN [run EXCEPT !.pc = "file"]
              ELSE [run EXCEPT !.pc = "body"]]
    /\ UNCHANGED started
    /\ StoreUnchanged

\* Lines 80-123: read the request, validate, decide whether to file
StartUpdate(w, data) ==
    /\ runs[w].route = "update"
    /\ runs[w].pc = "idle"
    /\ LET run == UpdateRun(data)
       IN  runs' = [runs EXCEPT ![w] =
              IF ~Truthy(data.jobNumber)
              THEN Return(run, 400, PyFalse, "No job number provided")
              ELSE IF ~Truthy(data.internetMessageId)
              THEN Return(run, 400, PyFalse, "No internetMessageId provided")
              ELSE IF data.hasAttachments /\ data.attachmentNames # <<>>
              THEN [run EXCEPT !.pc = "file"]
              ELSE [run EXCEPT !.pc = "body"]]
    /\ UNCHANGED started
    /\ StoreUnchanged

\* Lines 124-147: fetch the body for the .eml artifact, then call
\* file.file_to_sharepoint, a name utils/file.py does not define
FileAttachments(w, filed, sent) ==
    /\ runs[w].route = "update"
    /\ runs[w].pc = "file"
    /\ LET run == [runs[w] EXCEPT !.calls.get_email_body = @ + 1]
       IN  runs' = [runs EXCEPT ![w] =
              IF "file_to_sharepoint" \notin FileModule
              THEN Unhandled(run, "AttributeError: file_to_sharepoint", sent)
              ELSE [run EXCEPT !.calls.file = @ + 1,
                               !.results.file = Result(PyBool(filed), FALSE, 0),
                               !.pc = "body"]]
    /\ UNCHANGED started
    /\ StoreUnchanged

\* Lines 156-167: fetch the email body; fatal when empty
GetEmailBody(w, ok, sent) ==
    /\ runs[w].route = "update"
    /\ runs[w].pc = "body"
    /\ LET email_body == GetEmailBodyOf(runs[w].data.internetMessageId, ok)
           run == [runs[w] EXCEPT !.calls.get_email_body = @ + 1,
                                  !.email_body = email_body]
       IN  runs' = [runs EXCEPT ![w] =
              IF ~Truthy(email_body)
              THEN Fatal(run, "Could not retrieve email body from Traffic table",
                         400, sent)
              ELSE [run EXCEPT !.pc = "lookup"]]
    /\ UNCHANGED started
    /\ StoreUnchanged

\* GetProject answering 400 when the lookup fails
GetProjectOr400(w, ok, sent) ==
    /\ runs[w].route = "update"
    /\ runs[w].pc = "lookup"
    /\ LET found == GetProjectOf(projects, runs[w].data.jobNumber, ok)
           run == [runs[w] EXCEPT !.calls.get_project = @ + 1]
       IN  runs' = [runs EXCEPT ![w] =
              IF Truthy(found[3])
              THEN Fatal(run, found[3], 400, sent)
              ELSE [run EXCEPT
                      !.job_record_id = found[1],
                      !.project_info = found[2],
                      !.team_id = IF ~Truthy(@) THEN found[2].teamId ELSE @,
                      !.channel_id = IF ~Truthy(@) THEN found[2].channelId ELSE @,
                      !.pc = "extract"]]
    /\ UNCHANGED started
    /\ StoreUnchanged

\* GetProject taking the identifiers stored on the job record whenever
\* the record holds them
GetProjectPreferringStored(w, ok, sent) ==
    /\ runs[w].route = "update"
    /\ runs[w].pc = "lookup"
    /\ LET found == GetProjectOf(projects, runs[w].data.jobNumber, ok)
           job_record_id == found[1]
           project_info == found[2]
           lookup_error == found[3]
           run == [runs[w] EXCEPT !.calls.get_project = @ + 1]
       IN  runs' = [runs EXCEPT ![w] =
              IF Truthy(lookup_error)
              THEN Fatal(run, lookup_error, 200, sent)
              ELSE [run EXCEPT
                      !.job_record_id = job_record_id,
                      !.project_info = project_info,
                      !.team_id = IF Truthy(project_info.teamId)
                                  THEN project_info.teamId ELSE @,
                      !.channel_id = IF Truthy(project_info.channelId)
                                     THEN project_info.channelId ELSE @,
                      !.pc = "extract"]]
    /\ UNCHANGED started
    /\ StoreUnchanged

\* Lines 173-188: look the job up; fatal on error; fall back to the
\* job's team and channel
GetProject(w, ok, sent) ==
    /\ runs[w].route = "update"
    /\ runs[w].pc = "lookup"
    /\ LET found == GetProjectOf(projects, runs[w].data.jobNumber, ok)
           job_record_id == found[1]
           project_info == found[2]
           lookup_error == found[3]
           run == [runs[w] EXCEPT !.calls.get_project = @ + 1]
       IN  runs' = [runs EXCEPT ![w] =
              IF Truthy(lookup_error)
              THEN Fatal(run, lookup_error, 200, sent)
              ELSE [run EXCEPT
                      !.job_record_id = job_record_id,
                      !.project_info = project_info,
                      !.team_id = IF ~Truthy(@) THEN project_info.teamId ELSE @,
                      !.channel_id = IF ~Truthy(@) THEN project_info.channelId ELSE @,
                      !.pc = "extract"]]
    /\ UNCHANGED started
    /\ StoreUnchanged

\* Lines 195-223: call the extraction client, strip, parse; reply is what
\* the client did: it raised, or it returned text
Extract(w, reply, today, sent) ==
    /\ runs[w].route = "update"
    /\ runs[w].pc = "extract"
    /\ LET run == [runs[w] EXCEPT !.calls.extract = @ + 1]
           content == StripMarkdownJson(reply.text)
       IN  runs' = [runs EXCEPT ![w] =
              IF reply.raised
              THEN Unhandled(run, "APIError", sent)
              ELSE IF JsonDecodeError(content)
              THEN InvalidJson(run, sent)
              ELSE LET analysis == JsonLoads(content)
                   IN  IF ~analysis.object
                       THEN Unhandled(run, "AttributeError: get", sent)
                       ELSE [run EXCEPT
                               !.analysis = analysis,
                               !.update_summary = DictGet(analysis, "updateSummary", ""),
                               !.update_due = PyOr(Get(analysis, "updateDue"),
                                                   GetWorkingDaysFromToday(today, 5)),
                               !.pc = "write"]]
    /\ UNCHANGED started
    /\ StoreUnchanged

\* Lines 245-251
NewStage(run) == Get(run.analysis, "stage")
NewStatus(run) == Get(run.analysis, "status")
NewWithClient(run) == Get(run.analysis, "withClient")

\* StageChanged without the comparison with the stored stage
StageSupplied(run) == Truthy(NewStage(run))

StageChanged(run) ==
    Truthy(NewStage(run)) /\ NewStage(run) # run.project_info.stage

StatusChanged(run) ==
    Truthy(NewStatus(run)) /\ NewStatus(run) # run.project_info.status

WithClientChanged(run) ==
    NewWithClient(run) # None /\ NewWithClient(run) # run.project_info.withClient

\* CreateUpdate keeping one record per job: the record of the job is
\* replaced when there is one
UpsertUpdate(table, record) ==
    IF \E i \in DOMAIN table : table[i].ProjectLink = record.ProjectLink
    THEN [i \in DOMAIN table |->
            IF table[i].ProjectLink = record.ProjectLink THEN record ELSE table[i]]
    ELSE Append(table, record)

\* CreateUpdate putting the new record first
PrependUpdate(table, record) == <<record>> \o table

\* write_update, lines 533-540: the POST to the Updates table creates a
\* new record
CreateUpdate(table, record) == Append(table, record)

\* Lines 230-253: write the update record; fatal on error
WriteUpdate(w, ok, sent) ==
    /\ runs[w].route = "update"
    /\ runs[w].pc = "write"
    /\ LET run == [runs[w] EXCEPT !.calls.write_update = @ + 1]
           accepted == ok /\ run.job_record_id # 0
           created == CreateUpdate(updates, UpdateRecord(run.job_record_id,
                                                         run.update_summary,
                                                         run.update_due))
           update_record_id == Len(created)
       IN  /\ updates' = IF accepted THEN created ELSE updates
           /\ runs' = [runs EXCEPT ![w] =
                 IF ~accepted
                 THEN Fatal([run EXCEPT !.results.airtable = Result(PyFalse, FALSE, 0)],
                            "Error writing update", 200, sent)
                 ELSE [run EXCEPT
                         !.results.airtable = Result(PyTrue, FALSE, update_record_id),
                         !.written = Append(@, update_record_id),
                         !.pc = IF StageChanged(run) \/ StatusChanged(run)
                                   \/ WithClientChanged(run)
                                THEN "patch" ELSE "teams"]]
    /\ UNCHANGED <<projects, clients, trackers, overlap, issued, started, cache, clock>>

\* UpdateProject patching only a job record that still holds what the
\* run read at its lookup
UpdateProjectIfUnchanged(w, ok) ==
    /\ runs[w].route = "update"
    /\ runs[w].pc = "patch"
    /\ LET run == runs[w]
           fields == UpdateProjectFields(
                        IF StageChanged(run) THEN NewStage(run) ELSE None,
                        IF StatusChanged(run) THEN NewStatus(run) ELSE None,
                        IF WithClientChanged(run) THEN NewWithClient(run) ELSE None)
           requested == fields # NoFields
           current == GetProjectOf(projects, run.data.jobNumber, TRUE)[2]
       IN  /\ projects' = IF requested /\ ok /\ current = run.project_info
                          THEN [projects EXCEPT ![run.job_record_id] =
                                    ApplyFields(@, fields)]
                          ELSE projects
           /\ runs' = [runs EXCEPT ![w] =
                 [run EXCEPT !.calls.update_project = @ + 1,
                             !.patches = IF requested
                                         THEN Append(@, [id |-> run.job_record_id,
                                                         fields |-> fields])
                                         ELSE @,
                             !.pc = "teams"]]
    /\ UNCHANGED <<updates, clients, trackers, overlap, issued, started, cache, clock>>

\* Lines 253-260 and update_project: patch the changed fields; the
\* outcome is not looked at
UpdateProject(w, ok) ==
    /\ runs[w].route = "update"
    /\ runs[w].pc = "patch"
    /\ LET run == runs[w]
           fields == UpdateProjectFields(
                        IF StageChanged(run) THEN NewStage(run) ELSE None,
                        IF StatusChanged(run) THEN NewStatus(run) ELSE None,
                        IF WithClientChanged(run) THEN NewWithClient(run) ELSE None)
           requested == fields # NoFields
       IN  /\ projects' = IF requested /\ ok
                          THEN [projects EXCEPT ![run.job_record_id] =
                                    ApplyFields(@, fields)]
                          ELSE projects
           /\ runs' = [runs EXCEPT ![w] =
                 [run EXCEPT !.calls.update_project = @ + 1,
                             !.patches = IF requested
                                         THEN Append(@, [id |-> run.job_record_id,
                                                         fields |-> fields])
                                         ELSE @,
                             !.pc = "teams"]]
    /\ UNCHANGED <<updates, clients, trackers, overlap, issued, started, cache, clock>>

\* connect.post_to_teams: the result; posted is whether the teamsbot
\* took the message
PostToTeamsResult(team_id, channel_id, posted) ==
    IF ~Truthy(team_id) \/ ~Truthy(channel_id)
    THEN Result(PyFalse, TRUE, 0)
    ELSE Result(PyBool(posted), FALSE, 0)

\* PostToTeams posting a second time after a post that failed
PostToTeamsWithRetry(w, posted, sent) ==
    /\ runs[w].route = "update"
    /\ runs[w].pc = "teams"
    /\ LET run == runs[w]
           teams_message == run.analysis.teamsMessage
           teams_subject == DictGet(teams_message, "subject", "UPDATE")
           result == PostToTeamsResult(run.team_id, run.channel_id, posted)
           again == ~result.skipped /\ result.success = PyFalse
                       /\ run.calls.post_to_teams = 0
       IN  runs' = [runs EXCEPT ![w] =
              IF teams_message.kind = "null"
              THEN Unhandled(run, "AttributeError: NoneType.get", sent)
              ELSE [run EXCEPT
                      !.calls.post_to_teams = @ + 1,
                      !.posts = IF result.skipped THEN @
                                ELSE Append(@, [teamId |-> run.team_id,
                                                channelId |-> run.channel_id,
                                                subject |-> teams_subject]),
                      !.results.teams = result,
                      !.pc = IF again THEN "teams" ELSE "confirm"]]
    /\ UNCHANGED started
    /\ StoreUnchanged

\* Lines 265-278: post to the job's channel
PostToTeams(w, posted, sent) ==
    /\ runs[w].route = "update"
    /\ runs[w].pc = "teams"
    /\ LET run == runs[w]
           teams_message == run.analysis.teamsMessage
           teams_subject == DictGet(teams_message, "subject", "UPDATE")
           result == PostToTeamsResult(run.team_id, run.channel_id, posted)
       IN  runs' = [runs EXCEPT ![w] =
              IF teams_message.kind = "null"
              THEN Unhandled(run, "AttributeError: NoneType.get", sent)
              ELSE [run EXCEPT
                      !.calls.post_to_teams = @ + 1,
                      !.posts = IF result.skipped THEN @
                                ELSE Append(@, [teamId |-> run.team_id,
                                                channelId |-> run.channel_id,
                                                subject |-> teams_subject]),
                      !.results.teams = result,
                      !.pc = "confirm"]]
    /\ UNCHANGED started
    /\ StoreUnchanged

\* connect._build_checklist, lines 112-156: has_failure.  A filing result
\* that is no success stands for one that carries an error.
HasFailure(results) ==
    \/ results.file.set /\ results.file.success # PyTrue
    \/ results.airtable.set /\ results.airtable.success # PyTrue
    \/ results.teams.set /\ results.teams.success # PyTrue

\* send_confirmation, lines 283-291: the opening words of the intro
Intro(results) ==
    IF HasFailure(results) THEN "Mostly sorted" ELSE "All sorted"

\* Lines 283-323 and connect.send_confirmation: confirm to the sender
SendConfirmation(w, sent) ==
    /\ runs[w].route = "update"
    /\ runs[w].pc = "confirm"
    /\ LET run == [runs[w] EXCEPT !.calls.send_confirmation = @ + 1]
       IN  runs' = [runs EXCEPT ![w] =
              IF GetFirstNameRaises(run.data.senderName)
              THEN Unhandled(run, "IndexError", sent)
              ELSE Return([run EXCEPT
                             !.mail = Append(@, [kind |-> "confirmation",
                                                 to |-> run.data.senderEmail,
                                                 error |-> "",
                                                 intro |-> Intro(run.results),
                                                 ok |-> sent]),
                             !.results.email = Result(PyBool(sent), FALSE, 0)],
                          200, PyTrue, "")]
    /\ UNCHANGED started
    /\ StoreUnchanged

-----------------------------------------------------------------------------
(* services/setup/handler.py: process_setup                                *)

\* A brief is a dict with some of the keys of the setup prompt's schema;
\* dict is FALSE for the request that carries no brief and for a JSON
\* value that is not an object.
Brief(jobName, theJob, what, owner, costs, updateDue, when) ==
    [dict |-> TRUE, jobName |-> jobName, theJob |-> theJob, what |-> what,
     owner |-> owner, costs |-> costs, updateDue |-> updateDue, when |-> when]

EmptyBrief == Brief(Absent, Absent, Absent, Absent, Absent, Absent, Absent)

NoBrief == [EmptyBrief EXCEPT !.dict = FALSE]

\* bool(brief): None and the empty dict are falsy
BriefTruthy(brief) == brief.dict /\ brief # EmptyBrief

NoSetupData ==
    [clientCode |-> "", clientName |-> "", internetMessageId |-> "",
     senderEmail |-> "", senderName |-> <<>>, brief |-> NoBrief]

NoChannel ==
    [set |-> FALSE, success |-> PyFalse, skipped |-> FALSE,
     channelId |-> None, channelUrl |-> NoUrl]

ChannelResult(success, skipped, channelId, channelUrl) ==
    [set |-> TRUE, success |-> success, skipped |-> skipped,
     channelId |-> channelId, channelUrl |-> channelUrl]

\* process_setup before its first statement; email_body is assigned only
\* on the email path (bound is FALSE until then)
SetupRun(data) ==
    [route |-> "setup", pc |-> "idle", data |-> data,
     email_body |-> [bound |-> FALSE, value |-> None],
     brief |-> NoBrief, job_name |-> None, owner |-> None, costs |-> None,
     update_due |-> None, job_number |-> None, current_counter |-> 0,
     team_id |-> None, project_record_id |-> 0, new_channel |-> NoChannel,
     results |-> [brief |-> NoBrief, project |-> NoResult, tracker |-> NoResult,
                  channel |-> NoChannel, teams_post |-> NoResult,
                  email |-> NoResult],
     response |-> NoResponse, calls |-> NoCalls, failure |-> "",
     mail |-> <<>>, posts |-> <<>>, patches |-> <<>>, written |-> <<>>]

\* Lines 212-219: keep the brief and read the fields the later steps use
WithBrief(run, brief, today) ==
    [run EXCEPT !.brief = brief,
                !.results.brief = brief,
                !.job_name = DictGet(brief, "jobName", "New Job"),
                !.owner = Get(brief, "owner"),
                !.costs = Get(brief, "costs"),
                !.update_due = PyOr(Get(brief, "updateDue"),
                                    GetWorkingDaysFromToday(today, 5)),
                !.pc = "reserve"]

\* StartSetup taking the email path whenever the request has a message id
StartSetupEmailFirst(w, data, today) ==
    /\ runs[w].route = "setup"
    /\ runs[w].pc = "idle"
    /\ LET run == SetupRun(data)
       IN  runs' = [runs EXCEPT ![w] =
              IF ~Truthy(data.clientCode)
              THEN Return(run, 400, PyFalse, "No client code provided")
              ELSE IF ~Truthy(data.internetMessageId) /\ ~BriefTruthy(data.brief)
              THEN Return(run, 400, PyFalse, "No internetMessageId or brief provided")
              ELSE IF Truthy(data.internetMessageId)
              THEN [run EXCEPT !.pc = "body"]
              ELSE WithBrief(run, data.brief, today)]
    /\ UNCHANGED started
    /\ StoreUnchanged

\* StartSetup without the check of clientCode
StartSetupAnyClient(w, data, today) ==
    /\ runs[w].route = "setup"
    /\ runs[w].pc = "idle"
    /\ LET run == SetupRun(data)
       IN  runs' = [runs EXCEPT ![w] =
              IF ~Truthy(data.internetMessageId) /\ ~BriefTruthy(data.brief)
              THEN Return(run, 400, PyFalse, "No internetMessageId or brief provided")
              ELSE IF BriefTruthy(data.brief)
              THEN WithBrief(run, data.brief, today)
              ELSE [run EXCEPT !.pc = "body"]]
    /\ UNCHANGED started
    /\ StoreUnchanged

\* Lines 132-172 and 212-219: read the request, validate, and take the
\* brief the request carries, if any
StartSetup(w, data, today) ==
    /\ runs[w].route = "setup"
    /\ runs[w].pc = "idle"
    /\ LET run == SetupRun(data)
       IN  runs' = [runs EXCEPT ![w] =
              IF ~Truthy(data.clientCode)
              THEN Return(run, 400, PyFalse, "No client code provided")
              ELSE IF ~Truthy(data.internetMessageId) /\ ~BriefTruthy(data.brief)
              THEN Return(run, 400, PyFalse, "No internetMessageId or brief provided")
              ELSE IF BriefTruthy(data.brief)
              THEN WithBrief(run, data.brief, today)
              ELSE [run EXCEPT !.pc = "body"]]
    /\ UNCHANGED started
    /\ StoreUnchanged

\* Lines 176-187: fetch the email body; fatal when empty
SetupGetEmailBody(w, ok, sent) ==
    /\ runs[w].route = "setup"
    /\ runs[w].pc = "body"
    /\ LET email_body == GetEmailBodyOf(runs[w].data.internetMessageId, ok)
           run == [runs[w] EXCEPT !.calls.get_email_body = @ + 1,
                                  !.email_body = [bound |-> TRUE, value |-> email_body]]
       IN  runs' = [runs EXCEPT ![w] =
              IF ~Truthy(email_body)
              THEN Fatal(run, "Could not retrieve email body from Traffic table",
                         400, sent)
              ELSE [run EXCEPT !.pc = "extract"]]
    /\ UNCHANGED started
    /\ StoreUnchanged

\* Lines 192-219: call the extraction client, strip, parse
SetupExtract(w, reply, today, sent) ==
    /\ runs[w].route = "setup"
    /\ runs[w].pc = "extract"
    /\ LET run == [runs[w] EXCEPT !.calls.extract = @ + 1]
           content == StripMarkdownJson(reply.text)
       IN  runs' = [runs EXCEPT ![w] =
              IF reply.raised
              THEN Unhandled(run, "APIError", sent)
              ELSE IF JsonDecodeError(content)
              THEN InvalidJson(run, sent)
              ELSE LET brief == JsonLoads(content)
                   IN  IF ~brief.dict
                       THEN Unhandled([run EXCEPT !.results.brief = brief],
                                      "AttributeError: get", sent)
                       ELSE WithBrief(run, brief, today)]
    /\ UNCHANGED started
    /\ StoreUnchanged

\* The Clients table's formula field Next Job #: the client code and the
\* counter Next #, three digits wide
NextJobNumber(client_code, counter) ==
    client_code \o " " \o
    (IF counter < 10 THEN "00" ELSE IF counter < 100 THEN "0" ELSE "") \o
    ToString(counter)

\* get_next_job_number, lines 116-147: the lookup.  <<job_number,
\* current_counter, team_id, error>>
ReadNextJobNumber(table, client_code, ok) ==
    IF ~Truthy(client_code)
    THEN <<None, 0, None, "Missing API key or client code">>
    ELSE IF ~ok THEN <<None, 0, None, "Error reserving job number">>
    ELSE IF client_code \notin DOMAIN table
    THEN <<None, 0, None, "Client not found">>
    ELSE LET fields == table[client_code]
             job_number == IF fields.NextJobConfigured
                           THEN NextJobNumber(client_code, fields.NextNum)
                           ELSE None
         IN  IF ~Truthy(job_number)
             THEN <<None, 0, None, "No Next Job # configured">>
             ELSE <<job_number, fields.NextNum, Get(fields, "TeamsID"), None>>

\* Lines 225-233 with get_next_job_number up to its patch request
ReserveRead(w, ok, sent) ==
    /\ runs[w].route = "setup"
    /\ runs[w].pc = "reserve"
    /\ LET read == ReadNextJobNumber(clients, runs[w].data.clientCode, ok)
           run == [runs[w] EXCEPT !.calls.get_next_job_number = @ + 1]
           others == {v \in DOMAIN runs \ {w} :
                        /\ runs[v].route = "setup"
                        /\ runs[v].pc = "increment"
                        /\ runs[v].data.clientCode = run.data.clientCode}
       IN  /\ runs' = [runs EXCEPT ![w] =
                 IF Truthy(read[4])
                 THEN Fatal(run, read[4], 400, sent)
                 ELSE [run EXCEPT !.job_number = read[1],
                                  !.current_counter = read[2],
                                  !.team_id = read[3],
                                  !.pc = "increment"]]
           /\ overlap' = IF ~Truthy(read[4]) /\ others # {}
                         THEN overlap \cup {run.data.clientCode}
                         ELSE overlap
    /\ UNCHANGED <<projects, updates, clients, trackers, issued, started, cache, clock>>

\* IncrementedCounter adding one to the counter the store holds now
IncrementedStoredCounter(fields, current_counter) == fields.NextNum + 1

\* IncrementedCounter writing back the counter that was read
SameCounter(fields, current_counter) == current_counter

\* get_next_job_number, lines 150-153: the counter the patch writes
IncrementedCounter(fields, current_counter) == current_counter + 1

\* get_next_job_number, lines 149-162: the patch of the counter, and
\* lines 227-235 of the handler
ReserveIncrement(w, ok, sent) ==
    /\ runs[w].route = "setup"
    /\ runs[w].pc = "increment"
    /\ LET run == runs[w]
           c == run.data.clientCode
       IN  /\ clients' = IF ok
                         THEN [clients EXCEPT ![c].NextNum =
                                  IncrementedCounter(clients[c], run.current_counter)]
                         ELSE clients
           /\ issued' = IF ok
                        THEN Append(issued, [clientCode |-> c,
                                             jobNumber |-> run.job_number])
                        ELSE issued
           /\ runs' = [runs EXCEPT ![w] =
                 IF ~ok
                 THEN Fatal([run EXCEPT !.job_number = None, !.team_id = None],
                            "Error reserving job number", 400, sent)
                 ELSE [run EXCEPT !.pc = "create"]]
    /\ UNCHANGED <<projects, updates, trackers, overlap, started, cache, clock>>

\* Lines 243-251: description and live date
DescriptionOf(brief) ==
    (IF Truthy(Get(brief, "theJob")) THEN <<brief.theJob>> ELSE <<>>) \o
    (IF Truthy(Get(brief, "what")) THEN <<brief.what>> ELSE <<>>)

\* LiveDate without the sentinel for a brief that names no month
LiveDateOfBrief(brief) == Get(brief, "when")

LiveDate(brief) == PyOr(Get(brief, "when"), "Tbc")

\* create_project, lines 329-346: the fields of the new record (the parts
\* of the description are joined with " | "; no part: no Description)
NewProject(job_number, job_name, description, owner, stage, status, update_due, live_date) ==
    [JobNumber |-> job_number, ProjectName |-> job_name, Stage |-> stage,
     Status |-> status, WithClient |-> Absent, Update |-> Absent,
     UpdateDue |-> IF Truthy(update_due) THEN update_due ELSE Absent,
     Live |-> IF Truthy(live_date) THEN live_date ELSE Absent,
     Description |-> description,
     ProjectOwner |-> IF Truthy(owner) THEN owner ELSE Absent,
     TeamsChannelId |-> Absent, ChannelUrl |-> NoUrl, FilesUrl |-> Absent]

\* Lines 253-274 and create_project: create the job record; fatal on error
CreateProject(w, ok, sent) ==
    /\ runs[w].route = "setup"
    /\ runs[w].pc = "create"
    /\ LET run == [runs[w] EXCEPT !.calls.create_project = @ + 1]
           missing == ~Truthy(run.job_number) \/ ~Truthy(run.job_name)
           project_error == IF missing THEN "Missing job number or job name"
                            ELSE IF ~ok THEN "Error creating project"
                            ELSE None
           project_record_id == Len(projects) + 1
       IN  /\ projects' =
                 IF project_error = None
                 THEN Append(projects,
                             NewProject(run.job_number, run.job_name,
                                        DescriptionOf(run.brief), run.owner,
                                        "Triage", "Incoming", run.update_due,
                                        LiveDate(run.brief)))
                 ELSE projects
           /\ runs' = [runs EXCEPT ![w] =
                 IF project_error # None
                 THEN Fatal([run EXCEPT !.results.project = Result(PyFalse, FALSE, 0)],
                            project_error, 400, sent)
                 ELSE [run EXCEPT
                         !.project_record_id = project_record_id,
                         !.results.project = Result(PyTrue, FALSE, project_record_id),
                         !.pc = "tracker"]]
    /\ UNCHANGED <<updates, clients, trackers, overlap, issued, started, cache, clock>>

\* Lines 282-291: the number in a free-text cost, k read as thousands
ParseCosts(costs) ==
    CASE costs = "$2k" -> 2000
      [] costs = "$5,000" -> 5000
      [] costs = "2000" -> 2000
      [] OTHER -> 0

\* create_tracker, lines 463-488: the fields of the new record (0: no Spend)
NewTracker(project_record_id, spend, spend_type, notes, ballpark) ==
    [Link |-> project_record_id, SpendType |-> spend_type, Spend |-> spend,
     Ballpark |-> ballpark,
     TrackerNotes |-> IF Truthy(notes) THEN notes ELSE Absent]

\* Lines 282-306: create the tracker record; an error is only recorded
CreateTracker(w, ok) ==
    /\ runs[w].route = "setup"
    /\ runs[w].pc = "tracker"
    /\ LET run == [runs[w] EXCEPT !.calls.create_tracker = @ + 1]
           spend == IF Truthy(run.costs) THEN ParseCosts(run.costs) ELSE 0
           tracker_record_id == Len(trackers) + 1
       IN  /\ trackers' =
                 IF ok
                 THEN Append(trackers,
                             NewTracker(run.project_record_id, spend,
                                        "Project budget", Get(run.brief, "theJob"),
                                        Truthy(run.costs)))
                 ELSE trackers
           /\ runs' = [runs EXCEPT ![w] =
                 [run EXCEPT
                    !.results.tracker = IF ok THEN Result(PyTrue, FALSE, tracker_record_id)
                                        ELSE Result(PyFalse, FALSE, 0),
                    !.pc = "channel"]]
    /\ UNCHANGED <<projects, updates, clients, overlap, issued, started, cache, clock>>

\* What the setupbot returns for a channel it created
NewChannelId(job_number) == "19:" \o job_number

NewChannelUrl(team_id, job_number) ==
    <<"https://teams.microsoft.com/l/channel/" \o NewChannelId(job_number) \o "?",
      "groupId=", team_id>>

\* Lines 313-323 and setup_teams_channel, lines 29-97: no team, or ask
\* the setupbot for a channel
CreateChannel(w, created) ==
    /\ runs[w].route = "setup"
    /\ runs[w].pc = "channel"
    /\ LET run == runs[w]
       IN  runs' = [runs EXCEPT ![w] =
              IF ~Truthy(run.team_id)
              THEN [run EXCEPT !.results.channel =
                                   ChannelResult(PyFalse, TRUE, None, NoUrl),
                               !.pc = "post"]
              ELSE IF ~created
              THEN [run EXCEPT !.calls.setup_teams_channel = @ + 1,
                               !.calls.get_client_sharepoint = @ + 1,
                               !.results.channel =
                                   ChannelResult(PyFalse, FALSE, None, NoUrl),
                               !.pc = "post"]
              ELSE [run EXCEPT !.calls.setup_teams_channel = @ + 1,
                               !.calls.get_client_sharepoint = @ + 1,
                               !.new_channel =
                                   ChannelResult(PyTrue, FALSE,
                                                 NewChannelId(run.job_number),
                                                 NewChannelUrl(run.team_id,
                                                               run.job_number)),
                               !.pc = "bind"]]
    /\ UNCHANGED started
    /\ StoreUnchanged

\* BindChannel reporting success whatever the store answered
BindChannelUnchecked(w, ok) ==
    /\ runs[w].route = "setup"
    /\ runs[w].pc = "bind"
    /\ LET run == runs[w]
           channel == run.new_channel
       IN  /\ projects' =
                 IF ok
                 THEN [projects EXCEPT ![run.project_record_id] =
                          [@ EXCEPT !.TeamsChannelId = channel.channelId,
                                    !.ChannelUrl = channel.channelUrl]]
                 ELSE projects
           /\ runs' = [runs EXCEPT ![w] =
                 [run EXCEPT
                    !.patches = Append(@, [id |-> run.project_record_id,
                                           fields |-> channel]),
                    !.results.channel = channel,
                    !.pc = "post"]]
    /\ UNCHANGED <<updates, clients, trackers, overlap, issued, started, cache, clock>>

\* setup_teams_channel, lines 103-138, and lines 323-328 of the handler:
\* store the channel on the job record
BindChannel(w, ok) ==
    /\ runs[w].route = "setup"
    /\ runs[w].pc = "bind"
    /\ LET run == runs[w]
           channel == run.new_channel
       IN  /\ projects' =
                 IF ok
                 THEN [projects EXCEPT ![run.project_record_id] =
                          [@ EXCEPT !.TeamsChannelId = channel.channelId,
                                    !.ChannelUrl = channel.channelUrl]]
                 ELSE projects
           /\ runs' = [runs EXCEPT ![w] =
                 [run EXCEPT
                    !.patches = Append(@, [id |-> run.project_record_id,
                                           fields |-> channel]),
                    !.results.channel = [channel EXCEPT !.success = PyBool(ok)],
                    !.pc = "post"]]
    /\ UNCHANGED <<updates, clients, trackers, overlap, issued, started, cache, clock>>

\* _format_teams_brief, lines 89-96: strptime and strftime("%-d %b") of
\* the due date; a text that is no ISO date is kept as it is
DueText(update_due) ==
    CASE update_due = "2026-03-09" -> "9 Mar"
      [] update_due = "2026-03-02" -> "2 Mar"
      [] update_due \in {IsoFormat(d) : d \in 0..30} -> "%-d %b of " \o update_due
      [] OTHER -> update_due

\* _format_teams_brief: the parts of the message
FormatTeamsBrief(job_name, brief, update_due) ==
    [the_job |-> PyOr(Get(brief, "theJob"), "Set up " \o job_name),
     owner |-> PyOr(Get(brief, "owner"), "TBC"),
     costs |-> PyOr(Get(brief, "costs"), "TBC"),
     due |-> IF Truthy(update_due) THEN DueText(update_due) ELSE "TBC",
     when |-> PyOr(Get(brief, "when"), "TBC")]

\* PostBrief posting only after a channel step that reported success
PostBriefAfterSuccess(w, posted) ==
    /\ runs[w].route = "setup"
    /\ runs[w].pc = "post"
    /\ LET run == runs[w]
           channel_id == run.results.channel.channelId
           result == PostToTeamsResult(run.team_id, channel_id, posted)
       IN  runs' = [runs EXCEPT ![w] =
              IF run.results.channel.success # PyTrue
              THEN [run EXCEPT !.results.teams_post = Result(PyFalse, TRUE, 0),
                               !.pc = "confirm"]
              ELSE [run EXCEPT
                      !.calls.get_client_sharepoint = @ + 1,
                      !.calls.post_to_teams = @ + 1,
                      !.posts = Append(@, [teamId |-> run.team_id,
                                           channelId |-> channel_id,
                                           subject |-> "New job: " \o run.job_number
                                                          \o " - " \o run.job_name,
                                           body |-> FormatTeamsBrief(run.job_name,
                                                                     run.brief,
                                                                     run.update_due)]),
                      !.results.teams_post = result,
                      !.pc = "confirm"]]
    /\ UNCHANGED started
    /\ StoreUnchanged

\* Lines 335-370: post the brief to the new channel, if there is one
PostBrief(w, posted) ==
    /\ runs[w].route = "setup"
    /\ runs[w].pc = "post"
    /\ LET run == runs[w]
           channel_id == run.results.channel.channelId
           result == PostToTeamsResult(run.team_id, channel_id, posted)
       IN  runs' = [runs EXCEPT ![w] =
              IF ~Truthy(run.team_id) \/ ~Truthy(channel_id)
              THEN [run EXCEPT !.results.teams_post = Result(PyFalse, TRUE, 0),
                               !.pc = "confirm"]
              ELSE [run EXCEPT
                      !.calls.get_client_sharepoint = @ + 1,
                      !.calls.post_to_teams = @ + 1,
                      !.posts = Append(@, [teamId |-> run.team_id,
                                           channelId |-> channel_id,
                                           subject |-> "New job: " \o run.job_number
                                                          \o " - " \o run.job_name,
                                           body |-> FormatTeamsBrief(run.job_name,
                                                                     run.brief,
                                                                     run.update_due)]),
                      !.results.teams_post = result,
                      !.pc = "confirm"]]
    /\ UNCHANGED started
    /\ StoreUnchanged

\* connect._build_setup_checklist, lines 177-216: has_failure; a skipped
\* brief post is passed over
SetupHasFailure(results) ==
    \/ results.project.set /\ results.project.success # PyTrue
    \/ results.tracker.set /\ results.tracker.success # PyTrue
    \/ results.channel.set /\ results.channel.success # PyTrue
    \/ /\ results.teams_post.set
       /\ results.teams_post.success # PyTrue
       /\ ~results.teams_post.skipped

\* send_setup_confirmation, lines 379-385: the opening words of the intro
SetupIntro(results) ==
    IF SetupHasFailure(results) THEN "Mostly set up" ELSE "All set up"

\* Lines 378-412 and connect.send_setup_confirmation: confirm to the
\* sender; original_email reads email_body
SendSetupConfirmation(w, sent) ==
    /\ runs[w].route = "setup"
    /\ runs[w].pc = "confirm"
    /\ LET run == runs[w]
           called == [run EXCEPT !.calls.send_setup_confirmation = @ + 1]
       IN  runs' = [runs EXCEPT ![w] =
              IF ~run.email_body.bound
              THEN Unhandled(run, "UnboundLocalError: email_body", sent)
              ELSE IF GetFirstNameRaises(run.data.senderName)
              THEN Unhandled(called, "IndexError", sent)
              ELSE Return([called EXCEPT
                             !.mail = Append(@, [kind |-> "confirmation",
                                                 to |-> run.data.senderEmail,
                                                 error |-> "",
                                                 intro |-> SetupIntro(run.results),
                                                 ok |-> sent]),
                             !.results.email = Result(PyBool(sent), FALSE, 0)],
                          200, PyTrue, "")]
    /\ UNCHANGED started
    /\ StoreUnchanged

\* The worker has answered and takes the next request: a fresh call of
\* the handler, nothing kept from the last one
NextRequest(w) ==
    /\ runs[w].pc = "done"
    /\ started < MaxRequests
    /\ started' = started + 1
    /\ runs' = [runs EXCEPT ![w] =
                  IF runs[w].route = "update"
                  THEN UpdateRun(NoUpdateData)
                  ELSE SetupRun(NoSetupData)]
    /\ StoreUnchanged

-----------------------------------------------------------------------------
(* Requests, extraction replies and initial tables of the update runs      *)

SenderNames == {<<>>, <<"A", "n", "n">>, <<" ">>}

JobChannelUrl == <<"https://teams.microsoft.com/l/channel/19:job?", "groupId=", "a1b2-c3d4">>

UpdateRequests ==
    [jobNumber : {"", None, "LAB 055", "LAB 999"},
     internetMessageId : {"", None, "msg-1", "msg-0"},
     senderEmail : {"ann@hunch.co.nz"},
     senderName : SenderNames,
     teamId : {None, "e5f6-0789"},
     teamsChannelId : {None, "19:request"},
     hasAttachments : BOOLEAN,
     attachmentNames : {<<>>, <<"brief.pdf">>}]

TeamsMessage == [kind |-> "object", subject |-> "LAB 055 update", body |-> Absent]

Raised == [raised |-> TRUE, text |-> <<>>]
Text(raw) == [raised |-> FALSE, text |-> raw]

UpdateReplies ==
    { Raised,
      Text(<<PROSE>>),
      Text(<<PROSE, NL, FENCE, LANG, NL, Json(NoAnalysis), NL, FENCE>>),
      Text(<<Json(JsonArray)>>),
      Text(<<Json(Analysis("Landing page design complete and approved", Absent,
                           "Live", Absent, Absent, TeamsMessage))>>),
      Text(<<FENCE, LANG, NL,
             Json(Analysis("Waiting on client feedback", "2026-03-02",
                           "Triage", "In Progress", PyTrue, NoTeamsMessage)),
             NL, FENCE, NL>>),
      Text(<<FENCE, Json(Analysis("Back with us", None, "Unknown", "",
                                  PyFalse, NullTeamsMessage)), FENCE>>) }

\* date.today().weekday() on the day of the run: 4 is a Friday
Todays == {4}

Clients0 ==
    [c \in {"LAB", "SKY", "FIS"} |->
        [NextNum |-> IF c = "LAB" THEN 56 ELSE 9,
         NextJobConfigured |-> c # "FIS",
         TeamsID |-> IF c = "LAB" THEN "a1b2-c3d4" ELSE Absent,
         SharepointID |-> IF c = "LAB" THEN <<"https://hunch.sharepoint.com/sites/Labour">>
                          ELSE NoUrl]]

InitialProjects ==
    { <<Project("LAB 055", "Landing page", "Triage", "Incoming", Absent,
                "19:job", JobChannelUrl)>>,
      <<Project("LAB 055", "Landing page", "Live", "In Progress", PyTrue,
                Absent, NoUrl)>> }

Init ==
    /\ projects \in InitialProjects
    /\ updates = <<>>
    /\ clients = Clients0
    /\ trackers = <<>>
    /\ runs = [w \in {"update-1"} |-> UpdateRun(NoUpdateData)]
    /\ started = 0
    /\ overlap = {}
    /\ issued = <<>>
    /\ cache = NoToken
    /\ clock = 0

Next ==
    \/ \E w \in DOMAIN runs, data \in UpdateRequests : StartUpdate(w, data)
    \/ \E w \in DOMAIN runs, filed, sent \in BOOLEAN : FileAttachments(w, filed, sent)
    \/ \E w \in DOMAIN runs, ok, sent \in BOOLEAN : GetEmailBody(w, ok, sent)
    \/ \E w \in DOMAIN runs, ok, sent \in BOOLEAN : GetProject(w, ok, sent)
    \/ \E w \in DOMAIN runs, reply \in UpdateReplies, today \in Todays,
          sent \in BOOLEAN : Extract(w, reply, today, sent)
    \/ \E w \in DOMAIN runs, ok, sent \in BOOLEAN : WriteUpdate(w, ok, sent)
    \/ \E w \in DOMAIN runs, ok \in BOOLEAN : UpdateProject(w, ok)
    \/ \E w \in DOMAIN runs, posted, sent \in BOOLEAN : PostToTeams(w, posted, sent)
    \/ \E w \in DOMAIN runs, sent \in BOOLEAN : SendConfirmation(w, sent)

Spec == Init /\ [][Next]_vars

-----------------------------------------------------------------------------
(* Requests, extraction replies and initial tables of the setup runs       *)

ElectionBrief ==
    Brief("Election Campaign", "Run the election campaign", "Billboards",
          "Sam", "$5,000", "2026-03-09", "Feb")

SiteBrief ==
    Brief(Absent, "Refresh the site", Absent, Absent, Absent, Absent, Absent)

UnnamedBrief ==
    Brief("", Absent, "Posters", Absent, "$2k", Absent, Absent)

SetupRequests ==
    [clientCode : {"", "LAB", "SKY", "FIS", "ZZZ"},
     clientName : {"Labour"},
     internetMessageId : {"", "msg-1", "msg-0"},
     senderEmail : {"ann@hunch.co.nz"},
     senderName : SenderNames,
     brief : {NoBrief, EmptyBrief, ElectionBrief, SiteBrief, UnnamedBrief}]

SetupReplies ==
    { Raised,
      Text(<<PROSE>>),
      Text(<<Json(NoBrief)>>),
      Text(<<FENCE, LANG, NL, Json(ElectionBrief), NL, FENCE>>),
      Text(<<Json(SiteBrief), NL>>) }

InitSetup ==
    /\ projects \in {<<>>} \cup InitialProjects
    /\ updates = <<>>
    /\ clients = Clients0
    /\ trackers = <<>>
    /\ runs = [w \in {"setup-1"} |-> SetupRun(NoSetupData)]
    /\ started = 0
    /\ overlap = {}
    /\ issued = <<>>
    /\ cache = NoToken
    /\ clock = 0

NextSetup ==
    \/ \E w \in DOMAIN runs, data \in SetupRequests, today \in Todays :
          StartSetup(w, data, today)
    \/ \E w \in DOMAIN runs, ok, sent \in BOOLEAN : SetupGetEmailBody(w, ok, sent)
    \/ \E w \in DOMAIN runs, reply \in SetupReplies, today \in Todays,
          sent \in BOOLEAN : SetupExtract(w, reply, today, sent)
    \/ \E w \in DOMAIN runs, ok, sent \in BOOLEAN : ReserveRead(w, ok, sent)
    \/ \E w \in DOMAIN runs, ok, sent \in BOOLEAN : ReserveIncrement(w, ok, sent)
    \/ \E w \in DOMAIN runs, ok, sent \in BOOLEAN : CreateProject(w, ok, sent)
    \/ \E w \in DOMAIN runs, ok \in BOOLEAN : CreateTracker(w, ok)
    \/ \E w \in DOMAIN runs, created \in BOOLEAN : CreateChannel(w, created)
    \/ \E w \in DOMAIN runs, ok \in BOOLEAN : BindChannel(w, ok)
    \/ \E w \in DOMAIN runs, posted \in BOOLEAN : PostBrief(w, posted)
    \/ \E w \in DOMAIN runs, sent \in BOOLEAN : SendSetupConfirmation(w, sent)

SpecSetup == InitSetup /\ [][NextSetup]_vars

\* Two workers serving setup requests at the same time
ReserveRequests ==
    [clientCode : {"LAB", "SKY"},
     clientName : {"Labour"},
     internetMessageId : {""},
     senderEmail : {"ann@hunch.co.nz"},
     senderName : {<<"A", "n", "n">>},
     brief : {SiteBrief}]

InitReserve ==
    /\ projects = <<>>
    /\ updates = <<>>
    /\ clients = Clients0
    /\ trackers = <<>>
    /\ runs = [w \in {"setup-1", "setup-2"} |-> SetupRun(NoSetupData)]
    /\ started = 0
    /\ overlap = {}
    /\ issued = <<>>
    /\ cache = NoToken
    /\ clock = 0

\* The reservation may fail; every other collaborator answers
NextReserve ==
    \/ \E w \in DOMAIN runs, data \in ReserveRequests, today \in Todays :
          StartSetup(w, data, today)
    \/ \E w \in DOMAIN runs, ok \in BOOLEAN : ReserveRead(w, ok, TRUE)
    \/ \E w \in DOMAIN runs, ok \in BOOLEAN : ReserveIncrement(w, ok, TRUE)
    \/ \E w \in DOMAIN runs, ok \in BOOLEAN : CreateProject(w, ok, TRUE)
    \/ \E w \in DOMAIN runs : CreateTracker(w, TRUE)
    \/ \E w \in DOMAIN runs : CreateChannel(w, TRUE)
    \/ \E w \in DOMAIN runs : BindChannel(w, TRUE)
    \/ \E w \in DOMAIN runs : PostBrief(w, TRUE)
    \/ \E w \in DOMAIN runs : SendSetupConfirmation(w, TRUE)
    \/ \E w \in DOMAIN runs : NextRequest(w)

SpecReserve == InitReserve /\ [][NextReserve]_vars

\* Jobs and extractions for the change detection of the update run: every
\* combination of a stored and an extracted stage, status and withClient
MergeProjects ==
    { <<Project("LAB 055", "Landing page", stage, status, withClient,
                "19:job", JobChannelUrl)>> :
        stage \in {"Triage", "Live", Absent},
        status \in {"Incoming", "In Progress"},
        withClient \in {Absent, PyTrue, PyFalse} }

MergeRequests ==
    [jobNumber : {"LAB 055"},
     internetMessageId : {"msg-1"},
     senderEmail : {"ann@hunch.co.nz"},
     senderName : {<<"A", "n", "n">>},
     teamId : {None},
     teamsChannelId : {None},
     hasAttachments : {FALSE},
     attachmentNames : {<<>>}]

MergeReplies ==
    { Text(<<Json(Analysis("Status changed", Absent, stage, status, withClient,
                           TeamsMessage))>>) :
        stage \in {Absent, None, "", "Unknown", "Triage", "Live"},
        status \in {Absent, "Unknown", "Incoming", "In Progress"},
        withClient \in {Absent, None, PyTrue, PyFalse} }

InitMerge ==
    /\ projects \in MergeProjects
    /\ updates = <<>>
    /\ clients = Clients0
    /\ trackers = <<>>
    /\ runs = [w \in {"update-1"} |-> UpdateRun(NoUpdateData)]
    /\ started = 0
    /\ overlap = {}
    /\ issued = <<>>
    /\ cache = NoToken
    /\ clock = 0

\* The store may reject the patch; every other collaborator answers
NextMerge ==
    \/ \E w \in DOMAIN runs, data \in MergeRequests : StartUpdate(w, data)
    \/ \E w \in DOMAIN runs : GetEmailBody(w, TRUE, TRUE)
    \/ \E w \in DOMAIN runs : GetProject(w, TRUE, TRUE)
    \/ \E w \in DOMAIN runs, reply \in MergeReplies, today \in Todays :
          Extract(w, reply, today, TRUE)
    \/ \E w \in DOMAIN runs : WriteUpdate(w, TRUE, TRUE)
    \/ \E w \in DOMAIN runs, ok \in BOOLEAN : UpdateProject(w, ok)
    \/ \E w \in DOMAIN runs : PostToTeams(w, TRUE, TRUE)
    \/ \E w \in DOMAIN runs : SendConfirmation(w, TRUE)

SpecMerge == InitMerge /\ [][NextMerge]_vars

\* One worker that is sent the same update request again and again
ReplayReplies ==
    { Text(<<Json(Analysis("Landing page design complete and approved", Absent,
                           "Live", Absent, Absent, TeamsMessage))>>),
      Text(<<FENCE, LANG, NL,
             Json(Analysis("Waiting on client feedback", "2026-03-02",
                           "Triage", "In Progress", PyTrue, NoTeamsMessage)),
             NL, FENCE, NL>>) }

\* Every fatal step succeeds; the patch, the post and the email may fail
NextReplay ==
    \/ \E w \in DOMAIN runs, data \in MergeRequests : StartUpdate(w, data)
    \/ \E w \in DOMAIN runs : GetEmailBody(w, TRUE, TRUE)
    \/ \E w \in DOMAIN runs : GetProject(w, TRUE, TRUE)
    \/ \E w \in DOMAIN runs, reply \in ReplayReplies, today \in Todays :
          Extract(w, reply, today, TRUE)
    \/ \E w \in DOMAIN runs : WriteUpdate(w, TRUE, TRUE)
    \/ \E w \in DOMAIN runs, ok \in BOOLEAN : UpdateProject(w, ok)
    \/ \E w \in DOMAIN runs, posted \in BOOLEAN : PostToTeams(w, posted, TRUE)
    \/ \E w \in DOMAIN runs, sent \in BOOLEAN : SendConfirmation(w, sent)
    \/ \E w \in DOMAIN runs : NextRequest(w)

SpecReplay == Init /\ [][NextReplay]_vars

\* Two update workers and a setup worker sharing the store
LogSetupRequests ==
    [clientCode : {"LAB"},
     clientName : {"Labour"},
     internetMessageId : {""},
     senderEmail : {"ann@hunch.co.nz"},
     senderName : {<<"A", "n", "n">>},
     brief : {ElectionBrief}]

InitLog ==
    /\ projects \in InitialProjects
    /\ updates = <<>>
    /\ clients = Clients0
    /\ trackers = <<>>
    /\ runs = [w \in {"update-1", "update-2", "setup-1"} |->
                 IF w = "setup-1" THEN SetupRun(NoSetupData)
                 ELSE UpdateRun(NoUpdateData)]
    /\ started = 0
    /\ overlap = {}
    /\ issued = <<>>
    /\ cache = NoToken
    /\ clock = 0

\* The store may reject the update record; every other collaborator answers
NextLog ==
    \/ \E w \in DOMAIN runs, data \in MergeRequests : StartUpdate(w, data)
    \/ \E w \in DOMAIN runs : GetEmailBody(w, TRUE, TRUE)
    \/ \E w \in DOMAIN runs : GetProject(w, TRUE, TRUE)
    \/ \E w \in DOMAIN runs, reply \in ReplayReplies, today \in Todays :
          Extract(w, reply, today, TRUE)
    \/ \E w \in DOMAIN runs, ok \in BOOLEAN : WriteUpdate(w, ok, TRUE)
    \/ \E w \in DOMAIN runs : UpdateProject(w, TRUE)
    \/ \E w \in DOMAIN runs : PostToTeams(w, TRUE, TRUE)
    \/ \E w \in DOMAIN runs : SendConfirmation(w, TRUE)
    \/ \E w \in DOMAIN runs, data \in LogSetupRequests, today \in Todays :
          StartSetup(w, data, today)
    \/ \E w \in DOMAIN runs : ReserveRead(w, TRUE, TRUE)
    \/ \E w \in DOMAIN runs : ReserveIncrement(w, TRUE, TRUE)
    \/ \E w \in DOMAIN runs : CreateProject(w, TRUE, TRUE)
    \/ \E w \in DOMAIN runs : CreateTracker(w, TRUE)
    \/ \E w \in DOMAIN runs : CreateChannel(w, TRUE)
    \/ \E w \in DOMAIN runs : BindChannel(w, TRUE)
    \/ \E w \in DOMAIN runs : PostBrief(w, TRUE)
    \/ \E w \in DOMAIN runs : SendSetupConfirmation(w, TRUE)
    \/ \E w \in DOMAIN runs : NextRequest(w)

SpecLog == InitLog /\ [][NextLog]_vars

\* One worker, serving either update requests or setup requests
InitEither ==
    /\ projects \in InitialProjects
    /\ updates = <<>>
    /\ clients = Clients0
    /\ trackers = <<>>
    /\ runs \in {[w \in {"update-1"} |-> UpdateRun(NoUpdateData)],
                 [w \in {"setup-1"} |-> SetupRun(NoSetupData)]}
    /\ started = 0
    /\ overlap = {}
    /\ issued = <<>>
    /\ cache = NoToken
    /\ clock = 0

NextEither ==
    \/ \E w \in DOMAIN runs, data \in UpdateRequests : StartUpdate(w, data)
    \/ \E w \in DOMAIN runs, filed, sent \in BOOLEAN : FileAttachments(w, filed, sent)
    \/ \E w \in DOMAIN runs, ok, sent \in BOOLEAN : GetEmailBody(w, ok, sent)
    \/ \E w \in DOMAIN runs, ok, sent \in BOOLEAN : GetProject(w, ok, sent)
    \/ \E w \in DOMAIN runs, reply \in UpdateReplies, today \in Todays,
          sent \in BOOLEAN : Extract(w, reply, today, sent)
    \/ \E w \in DOMAIN runs, ok, sent \in BOOLEAN : WriteUpdate(w, ok, sent)
    \/ \E w \in DOMAIN runs, ok \in BOOLEAN : UpdateProject(w, ok)
    \/ \E w \in DOMAIN runs, posted, sent \in BOOLEAN : PostToTeams(w, posted, sent)
    \/ \E w \in DOMAIN runs, sent \in BOOLEAN : SendConfirmation(w, sent)
    \/ \E w \in DOMAIN runs, data \in SetupRequests, today \in Todays :
          StartSetup(w, data, today)
    \/ \E w \in DOMAIN runs, ok, sent \in BOOLEAN : SetupGetEmailBody(w, ok, sent)
    \/ \E w \in DOMAIN runs, reply \in SetupReplies, today \in Todays,
          sent \in BOOLEAN : SetupExtract(w, reply, today, sent)
    \/ \E w \in DOMAIN runs, ok, sent \in BOOLEAN : ReserveRead(w, ok, sent)
    \/ \E w \in DOMAIN runs, ok, sent \in BOOLEAN : ReserveIncrement(w, ok, sent)
    \/ \E w \in DOMAIN runs, ok, sent \in BOOLEAN : CreateProject(w, ok, sent)
    \/ \E w \in DOMAIN runs, ok \in BOOLEAN : CreateTracker(w, ok)
    \/ \E w \in DOMAIN runs, created \in BOOLEAN : CreateChannel(w, created)
    \/ \E w \in DOMAIN runs, ok \in BOOLEAN : BindChannel(w, ok)
    \/ \E w \in DOMAIN runs, posted \in BOOLEAN : PostBrief(w, posted)
    \/ \E w \in DOMAIN runs, sent \in BOOLEAN : SendSetupConfirmation(w, sent)

SpecEither == InitEither /\ [][NextEither]_vars

\* The days a request may arrive on: two weeks from a Monday
MaxDay == 13

Days == 0..MaxDay

\* Extraction replies with and without a due date
DueReplies ==
    { Text(<<Json(Analysis("Waiting on client feedback", due, Absent, Absent,
                           Absent, TeamsMessage))>>) :
        due \in {Absent, None, "", "2026-03-02"} }

DueSetupRequests ==
    [clientCode : {"LAB"},
     clientName : {"Labour"},
     internetMessageId : {"msg-1"},
     senderEmail : {"ann@hunch.co.nz"},
     senderName : {<<"A", "n", "n">>},
     brief : {NoBrief, ElectionBrief, SiteBrief}]

DueSetupReplies ==
    { Text(<<FENCE, LANG, NL, Json(ElectionBrief), NL, FENCE>>),
      Text(<<Json(SiteBrief), NL>>) }

\* One run of either route on any day of the two weeks; every
\* collaborator answers
NextDue ==
    \/ \E w \in DOMAIN runs, data \in MergeRequests : StartUpdate(w, data)
    \/ \E w \in DOMAIN runs : GetEmailBody(w, TRUE, TRUE)
    \/ \E w \in DOMAIN runs : GetProject(w, TRUE, TRUE)
    \/ \E w \in DOMAIN runs, reply \in DueReplies, today \in Days :
          Extract(w, reply, today, TRUE)
    \/ \E w \in DOMAIN runs : WriteUpdate(w, TRUE, TRUE)
    \/ \E w \in DOMAIN runs : PostToTeams(w, TRUE, TRUE)
    \/ \E w \in DOMAIN runs : SendConfirmation(w, TRUE)
    \/ \E w \in DOMAIN runs, data \in DueSetupRequests, today \in Days :
          StartSetup(w, data, today)
    \/ \E w \in DOMAIN runs : SetupGetEmailBody(w, TRUE, TRUE)
    \/ \E w \in DOMAIN runs, reply \in DueSetupReplies, today \in Days :
          SetupExtract(w, reply, today, TRUE)
    \/ \E w \in DOMAIN runs : ReserveRead(w, TRUE, TRUE)
    \/ \E w \in DOMAIN runs : ReserveIncrement(w, TRUE, TRUE)
    \/ \E w \in DOMAIN runs : CreateProject(w, TRUE, TRUE)
    \/ \E w \in DOMAIN runs : CreateTracker(w, TRUE)
    \/ \E w \in DOMAIN runs : CreateChannel(w, TRUE)
    \/ \E w \in DOMAIN runs : BindChannel(w, TRUE)
    \/ \E w \in DOMAIN runs : PostBrief(w, TRUE)
    \/ \E w \in DOMAIN runs : SendSetupConfirmation(w, TRUE)

SpecDue == InitEither /\ [][NextDue]_vars

\* The payloads of the fence runs: an analysis for an update, a brief for
\* a setup
FenceAnalyses ==
    { Analysis("ok", Absent, Absent, Absent, Absent, NoTeamsMessage),
      Analysis("Back with us", "2026-03-02", "Live", "In Progress", PyFalse,
               TeamsMessage),
      NoAnalysis }

FenceBriefs == {ElectionBrief, SiteBrief}

\* Blanks the extraction client may put around its output
Pads == {<<>>, <<NL>>, <<SP, NL>>}

\* The text of a payload, on one line or on several
PayloadText(v, multiline) == IF multiline THEN JsonLines(v) ELSE <<Json(v)>>

\* A payload between an opening fence line, with or without a language
\* tag, and a closing fence
Fenced(payload, tagged) ==
    <<FENCE>> \o (IF tagged THEN <<LANG>> ELSE <<>>) \o <<NL>>
        \o payload \o <<NL, FENCE>>

\* The outputs of the extraction client that hold a payload between
\* fences, with blanks around
FenceOutputs(values) ==
    { pre \o Fenced(PayloadText(v, m), tagged) \o post :
        pre \in Pads, post \in Pads, v \in values, m \in BOOLEAN,
        tagged \in BOOLEAN }

\* The outputs that hold a bare payload, with blanks around
BareOutputs(values) ==
    { pre \o PayloadText(v, m) \o post :
        pre \in Pads, post \in Pads, v \in values, m \in BOOLEAN }

\* One run of either route whose extraction reply is a payload: the
\* empty analysis and the site brief come bare, every other payload
\* between fences; the store may fail
NextFence ==
    \/ \E w \in DOMAIN runs, data \in MergeRequests : StartUpdate(w, data)
    \/ \E w \in DOMAIN runs : GetEmailBody(w, TRUE, TRUE)
    \/ \E w \in DOMAIN runs : GetProject(w, TRUE, TRUE)
    \/ \E w \in DOMAIN runs, today \in Todays,
          raw \in FenceOutputs(FenceAnalyses \ {NoAnalysis})
                     \cup BareOutputs({NoAnalysis}) :
          Extract(w, Text(raw), today, TRUE)
    \/ \E w \in DOMAIN runs, ok \in BOOLEAN : WriteUpdate(w, ok, TRUE)
    \/ \E w \in DOMAIN runs, ok \in BOOLEAN : UpdateProject(w, ok)
    \/ \E w \in DOMAIN runs, posted \in BOOLEAN : PostToTeams(w, posted, TRUE)
    \/ \E w \in DOMAIN runs, sent \in BOOLEAN : SendConfirmation(w, sent)
    \/ \E w \in DOMAIN runs, data \in DueSetupRequests, today \in Todays :
          StartSetup(w, data, today)
    \/ \E w \in DOMAIN runs : SetupGetEmailBody(w, TRUE, TRUE)
    \/ \E w \in DOMAIN runs, today \in Todays,
          raw \in FenceOutputs({ElectionBrief}) \cup BareOutputs({SiteBrief}) :
          SetupExtract(w, Text(raw), today, TRUE)
    \/ \E w \in DOMAIN runs : ReserveRead(w, TRUE, TRUE)
    \/ \E w \in DOMAIN runs : ReserveIncrement(w, TRUE, TRUE)
    \/ \E w \in DOMAIN runs, ok \in BOOLEAN : CreateProject(w, ok, TRUE)
    \/ \E w \in DOMAIN runs, ok \in BOOLEAN : CreateTracker(w, ok)
    \/ \E w \in DOMAIN runs, created \in BOOLEAN : CreateChannel(w, created)
    \/ \E w \in DOMAIN runs, ok \in BOOLEAN : BindChannel(w, ok)
    \/ \E w \in DOMAIN runs, posted \in BOOLEAN : PostBrief(w, posted)
    \/ \E w \in DOMAIN runs, sent \in BOOLEAN : SendSetupConfirmation(w, sent)

SpecFence == InitEither /\ [][NextFence]_vars

\* Extraction replies of two updates of one job: each moves the stage,
\* and may change the status and withClient
RaceReplies ==
    { Text(<<Json(Analysis(summary, Absent, stage, status, withClient,
                           TeamsMessage))>>) :
        summary \in {"Approved"},
        stage \in {"Live", "Triage", "On Hold"},
        status \in {Absent, "In Progress"},
        withClient \in {Absent, PyTrue} }

InitRace ==
    /\ projects = <<Project("LAB 055", "Landing page", "Triage", "Incoming",
                            Absent, "19:job", JobChannelUrl)>>
    /\ updates = <<>>
    /\ clients = Clients0
    /\ trackers = <<>>
    /\ runs = [w \in {"update-1", "update-2"} |-> UpdateRun(NoUpdateData)]
    /\ started = 0
    /\ overlap = {}
    /\ issued = <<>>
    /\ cache = NoToken
    /\ clock = 0

\* Two update runs of one job, their steps interleaved in any order;
\* every collaborator answers
NextRace ==
    \/ \E w \in DOMAIN runs, data \in MergeRequests : StartUpdate(w, data)
    \/ \E w \in DOMAIN runs : GetEmailBody(w, TRUE, TRUE)
    \/ \E w \in DOMAIN runs : GetProject(w, TRUE, TRUE)
    \/ \E w \in DOMAIN runs, reply \in RaceReplies, today \in Todays :
          Extract(w, reply, today, TRUE)
    \/ \E w \in DOMAIN runs : WriteUpdate(w, TRUE, TRUE)
    \/ \E w \in DOMAIN runs : UpdateProject(w, TRUE)
    \/ \E w \in DOMAIN runs : PostToTeams(w, TRUE, TRUE)
    \/ \E w \in DOMAIN runs : SendConfirmation(w, TRUE)

SpecRace == InitRace /\ [][NextRace]_vars

-----------------------------------------------------------------------------
(* utils/file.py: the token cache and file_to_dropbox                      *)

\* _get_access_token, lines 76-78: the cached token is still good
CacheValid(c, now) ==
    Truthy(c.access_token) /\ now < c.token_expires_at - 300

\* Lines 99-101: the expiry a refresh records; expires_in defaults to
\* 14400 seconds
ExpiresAt(now, result) ==
    now + (IF "expires_in" \in result.keys THEN result.expires_in ELSE 14400)

\* The token endpoint refused the refresh, or could not be reached
NoRefresh == [keys |-> {}, access_token |-> None, expires_in |-> 0]

\* The answers of the token endpoint to a refresh that it accepts: an
\* access token, with or without the key expires_in
TokenResponses ==
    [keys : {{"access_token"}, {"access_token", "expires_in"}},
     access_token : {"token-1", "token-2"}, expires_in : {600}]

\* CLIENT_PATHS, lines 36-50
CLIENT_PATHS ==
    [c \in {"SKY", "TOW", "FIS", "ONE", "ONS", "ONB", "HUN", "LAB", "FST",
            "EON", "WKA"} |->
        CASE c = "SKY" -> "Clients/Sky"
          [] c = "TOW" -> "Clients/Tower"
          [] c = "FIS" -> "Clients/Fisher Funds"
          [] c = "ONE" -> "Clients/One NZ/Marketing"
          [] c = "ONS" -> "Clients/One NZ/Simplification"
          [] c = "ONB" -> "Clients/One NZ/Business"
          [] c = "HUN" -> "Clients/Hunch"
          [] c = "LAB" -> "Clients/Other/Labour"
          [] c = "FST" -> "Clients/Other/Firestop"
          [] c = "EON" -> "Clients/Other/Eon Fibre"
          [] c = "WKA" -> "Clients/Other/Waikato"]

\* _build_job_folder_path, lines 249-262; the job names of the model hold
\* no blank at either end and none of the characters the function removes
BuildJobFolderPath(client_code, job_number, job_name) ==
    "/" \o CLIENT_PATHS[client_code] \o "/Active/" \o job_number \o " - " \o
    (IF Truthy(job_name) THEN job_name ELSE "Untitled")

\* _create_eml_filename, line 511: sender_name.split()[0] of a name that
\* is not empty and holds only whitespace raises IndexError
EmlFilenameRaises(sender_name) ==
    sender_name # <<>> /\ Split(sender_name) = <<>>

\* The name of the message artifact: Email from <first name> - <date>.eml
EmlFilename == "Email from sender.eml"

NoFiling ==
    [set |-> FALSE, success |-> PyFalse, filed |-> PyFalse, error |-> Absent,
     filesMoved |-> <<>>, count |-> 0, dropboxUrl |-> Absent]

\* The dicts file_to_dropbox returns
FilingFailed(error) ==
    [NoFiling EXCEPT !.set = TRUE, !.error = error]

\* file_to_dropbox, lines 297-457, for the route file.  listed: the
\* transfer folder was listed; moved: the attachments that were found
\* there and moved; uploaded: the message artifact was saved
FileToDropbox(job_number, attachment_names, client_code, job_name, email_content, listed, moved, uploaded) ==
    LET names == {attachment_names[i] : i \in DOMAIN attachment_names}
        InMoved(a) == a \in moved
        files_moved == SelectSeq(attachment_names, InMoved) \o
                       (IF Truthy(email_content) /\ uploaded
                        THEN <<EmlFilename>> ELSE <<>>)
        errors == (names \ moved # {}) \/ (Truthy(email_content) /\ ~uploaded)
    IN  IF attachment_names = <<>> /\ ~Truthy(email_content)
        THEN [NoFiling EXCEPT !.set = TRUE, !.success = PyTrue]
        ELSE IF client_code \notin DOMAIN CLIENT_PATHS
        THEN FilingFailed("Unknown client code")
        ELSE IF attachment_names # <<>> /\ ~listed
        THEN FilingFailed("Could not list File transfer folder")
        ELSE IF errors /\ files_moved = <<>>
        THEN FilingFailed("Not found or move failed")
        ELSE [set |-> TRUE,
              success |-> PyBool(Len(files_moved) > 0),
              filed |-> PyBool(Len(files_moved) > 0),
              error |-> Absent,
              filesMoved |-> files_moved,
              count |-> Len(files_moved),
              dropboxUrl |-> "https://www.dropbox.com/home" \o
                                BuildJobFolderPath(client_code, job_number, job_name)]

-----------------------------------------------------------------------------
(* services/file/handler.py: process_file                                  *)

NoFileData ==
    [jobNumber |-> "", attachmentNames |-> <<>>, internetMessageId |-> "",
     senderEmail |-> "", senderName |-> <<>>, emailContent |-> ""]

\* process_file before its first statement
FileRun(data) ==
    [route |-> "file", pc |-> "idle", data |-> data,
     job_record_id |-> 0, project_info |-> NoProjectInfo,
     team_id |-> None, channel_id |-> None, email_body_for_eml |-> None,
     results |-> [file |-> NoFiling, teams |-> NoResult, email |-> NoResult],
     response |-> NoResponse, calls |-> NoCalls, failure |-> "",
     mail |-> <<>>, posts |-> <<>>, patches |-> <<>>, written |-> <<>>]

\* Line 89: the client code is the part of the job number before its
\* first blank
ClientCodeOf(job_number) ==
    CASE job_number = "LAB 055" -> "LAB"
      [] job_number = "XYZ 001" -> "XYZ"
      [] job_number = "LAB 999" -> "LAB"
      [] OTHER -> job_number

\* Lines 34-65: read the request and validate it
StartFile(w, data) ==
    /\ runs[w].route = "file"
    /\ runs[w].pc = "idle"
    /\ LET run == FileRun(data)
       IN  runs' = [runs EXCEPT ![w] =
              IF ~Truthy(data.jobNumber)
              THEN Return(run, 400, PyFalse, "No job number provided")
              ELSE IF data.attachmentNames = <<>>
              THEN Return(run, 400, PyFalse, "No attachments to file")
              ELSE [run EXCEPT !.pc = "lookup"]]
    /\ UNCHANGED started
    /\ StoreUnchanged

\* Lines 72-86: look the job up; fatal when it is not found
FileGetProject(w, ok, sent) ==
    /\ runs[w].route = "file"
    /\ runs[w].pc = "lookup"
    /\ LET found == GetProjectOf(projects, runs[w].data.jobNumber, ok)
           run == [runs[w] EXCEPT !.calls.get_project = @ + 1]
       IN  runs' = [runs EXCEPT ![w] =
              IF Truthy(found[3])
              THEN Fatal(run, found[3], 200, sent)
              ELSE [run EXCEPT !.job_record_id = found[1],
                               !.project_info = found[2],
                               !.team_id = found[2].teamId,
                               !.channel_id = found[2].channelId,
                               !.pc = "filing"]]
    /\ UNCHANGED started
    /\ StoreUnchanged

\* Lines 118-125: the filing result that aborts the request
FilingIsFatal(file_result) == file_result.success # PyTrue

\* Lines 97-125 with file_to_dropbox: fetch the body when the request
\* carries none, file, and stop when nothing was filed.  body_ok, list_ok:
\* the store and the transfer folder answered; refresh: the answer of the
\* token endpoint when the token is refreshed, NoRefresh when it refuses;
\* patched: the store accepted the patch of Files Url
FileAttachmentsToDropbox(w, body_ok, refresh, list_ok, moved, uploaded, patched, sent) ==
    /\ runs[w].route = "file"
    /\ runs[w].pc = "filing"
    /\ LET data == runs[w].data
           fetch == ~Truthy(data.emailContent) /\ Truthy(data.internetMessageId)
           email_body_for_eml ==
               IF fetch THEN GetEmailBodyOf(data.internetMessageId, body_ok)
               ELSE data.emailContent
           run == [runs[w] EXCEPT
                     !.calls.get_email_body = IF fetch THEN @ + 1 ELSE @,
                     !.calls.file = @ + 1,
                     !.email_body_for_eml = email_body_for_eml]
           client_code == ClientCodeOf(data.jobNumber)
           known == client_code \in DOMAIN CLIENT_PATHS
           token == CacheValid(cache, clock) \/ refresh # NoRefresh
           file_result == FileToDropbox(data.jobNumber, data.attachmentNames,
                                        client_code, run.project_info.projectName,
                                        email_body_for_eml, token /\ list_ok,
                                        moved, token /\ uploaded)
           listed == known /\ token /\ list_ok
           raised == listed /\ Truthy(email_body_for_eml)
                        /\ EmlFilenameRaises(data.senderName)
           files_url == run.job_record_id # 0 /\ file_result.filesMoved # <<>>
                           /\ ~raised
       IN  /\ moved \subseteq {data.attachmentNames[i] : i \in DOMAIN data.attachmentNames}
           /\ cache' = IF known /\ ~CacheValid(cache, clock) /\ refresh # NoRefresh
                       THEN [access_token |-> refresh.access_token,
                             token_expires_at |-> ExpiresAt(clock, refresh)]
                       ELSE cache
           /\ projects' = IF files_url /\ patched
                          THEN [projects EXCEPT ![run.job_record_id].FilesUrl =
                                    file_result.dropboxUrl]
                          ELSE projects
           /\ runs' = [runs EXCEPT ![w] =
                 IF raised
                 THEN Unhandled(run, "IndexError", sent)
                 ELSE LET filed == [run EXCEPT !.results.file = file_result,
                                               !.patches =
                                                   IF files_url
                                                   THEN Append(@, [id |-> run.job_record_id,
                                                                   files_url |-> file_result.dropboxUrl])
                                                   ELSE @]
                      IN  IF FilingIsFatal(file_result)
                          THEN Fatal(filed,
                                     IF file_result.error = Absent
                                     THEN "Filing failed" ELSE file_result.error,
                                     200, sent)
                          ELSE [filed EXCEPT !.pc = "teams"]]
    /\ UNCHANGED <<updates, clients, trackers, overlap, issued, started, clock>>

\* Lines 136-151: post to the job's channel
FilePostToTeams(w, posted) ==
    /\ runs[w].route = "file"
    /\ runs[w].pc = "teams"
    /\ LET run == runs[w]
           result == PostToTeamsResult(run.team_id, run.channel_id, posted)
       IN  runs' = [runs EXCEPT ![w] =
              [run EXCEPT !.calls.post_to_teams = @ + 1,
                          !.posts = IF result.skipped THEN @
                                    ELSE Append(@, [teamId |-> run.team_id,
                                                    channelId |-> run.channel_id,
                                                    subject |-> "Files filed"]),
                          !.results.teams = result,
                          !.pc = "confirm"]]
    /\ UNCHANGED started
    /\ StoreUnchanged

\* connect._build_checklist, lines 121-154, for the results of a file run
FileHasFailure(results) ==
    \/ /\ results.file.set
       /\ ~(results.file.success = PyTrue /\ results.file.filed = PyTrue)
       /\ Truthy(results.file.error) /\ results.file.error # Absent
    \/ results.teams.set /\ results.teams.success # PyTrue

\* Lines 156-188 and connect.send_confirmation: confirm to the sender
FileSendConfirmation(w, sent) ==
    /\ runs[w].route = "file"
    /\ runs[w].pc = "confirm"
    /\ LET run == [runs[w] EXCEPT !.calls.send_confirmation = @ + 1]
       IN  runs' = [runs EXCEPT ![w] =
              IF GetFirstNameRaises(run.data.senderName)
              THEN Unhandled(run, "IndexError", sent)
              ELSE Return([run EXCEPT
                             !.mail = Append(@, [kind |-> "confirmation",
                                                 to |-> run.data.senderEmail,
                                                 error |-> "",
                                                 intro |-> IF FileHasFailure(run.results)
                                                           THEN "Mostly sorted"
                                                           ELSE "All sorted",
                                                 ok |-> sent]),
                             !.results.email = Result(PyBool(sent), FALSE, 0)],
                          200, PyTrue, "")]
    /\ UNCHANGED started
    /\ StoreUnchanged

\* A file worker and a jobs table with a job of a client that has a
\* folder and one of a client that has none
FileRequests ==
    [jobNumber : {"", "LAB 055", "XYZ 001", "LAB 999"},
     attachmentNames : {<<>>, <<"brief.pdf">>, <<"brief.pdf", "logo.png">>},
     internetMessageId : {"", "msg-1"},
     senderEmail : {"ann@hunch.co.nz"},
     senderName : SenderNames,
     emailContent : {"", "<p>Brief attached</p>"}]

FileProjects ==
    <<Project("LAB 055", "Landing page", "Triage", "Incoming", Absent,
              "19:job", JobChannelUrl),
      Project("XYZ 001", "Pitch", "Triage", "Incoming", Absent, Absent, NoUrl)>>

InitFile ==
    /\ projects = FileProjects
    /\ updates = <<>>
    /\ clients = Clients0
    /\ trackers = <<>>
    /\ runs = [w \in {"file-1"} |-> FileRun(NoFileData)]
    /\ started = 0
    /\ overlap = {}
    /\ issued = <<>>
    /\ cache = NoToken
    /\ clock = 0

NextFile ==
    \/ \E w \in DOMAIN runs, data \in FileRequests : StartFile(w, data)
    \/ \E w \in DOMAIN runs, ok, sent \in BOOLEAN : FileGetProject(w, ok, sent)
    \/ \E w \in DOMAIN runs, body_ok, list_ok, uploaded, patched, sent \in BOOLEAN,
          refresh \in {NoRefresh} \cup TokenResponses,
          moved \in SUBSET {"brief.pdf", "logo.png"} :
          FileAttachmentsToDropbox(w, body_ok, refresh, list_ok, moved, uploaded,
                                   patched, sent)
    \/ \E w \in DOMAIN runs, posted \in BOOLEAN : FilePostToTeams(w, posted)
    \/ \E w \in DOMAIN runs, sent \in BOOLEAN : FileSendConfirmation(w, sent)

SpecFile == InitFile /\ [][NextFile]_vars

-----------------------------------------------------------------------------
(* utils/file.py: _get_access_token called by concurrent threads           *)

\* A thread about to call _get_access_token
TokenCall ==
    [route |-> "token", pc |-> "idle", result |-> NoRefresh,
     returned |-> None, raised |-> FALSE]

\* Lines 76-83: return the cached token, or raise for missing credentials,
\* or send the refresh request
CheckCache(w, configured) ==
    /\ runs[w].route = "token"
    /\ runs[w].pc = "idle"
    /\ runs' = [runs EXCEPT ![w] =
          IF CacheValid(cache, clock)
          THEN [@ EXCEPT !.returned = cache.access_token, !.pc = "done"]
          ELSE IF ~configured
          THEN [@ EXCEPT !.raised = TRUE, !.pc = "done"]
          ELSE [@ EXCEPT !.pc = "refresh"]]
    /\ UNCHANGED started
    /\ StoreUnchanged

\* Lines 85-100: the answer of the token endpoint arrives; an accepted
\* refresh assigns _access_token
StoreToken(w, response) ==
    /\ runs[w].route = "token"
    /\ runs[w].pc = "refresh"
    /\ runs' = [runs EXCEPT ![w] =
          IF response = NoRefresh
          THEN [@ EXCEPT !.raised = TRUE, !.pc = "done"]
          ELSE [@ EXCEPT !.result = response, !.pc = "expiry"]]
    /\ cache' = IF response = NoRefresh THEN cache
                ELSE [cache EXCEPT !.access_token = response.access_token]
    /\ UNCHANGED <<projects, updates, clients, trackers, overlap, issued, started, clock>>

\* Lines 101-104: assign _token_expires_at and return _access_token
StoreExpiry(w) ==
    /\ runs[w].route = "token"
    /\ runs[w].pc = "expiry"
    /\ cache' = [cache EXCEPT !.token_expires_at = ExpiresAt(clock, runs[w].result)]
    /\ runs' = [runs EXCEPT ![w] =
          [@ EXCEPT !.returned = cache.access_token, !.pc = "done"]]
    /\ UNCHANGED <<projects, updates, clients, trackers, overlap, issued, started, clock>>

\* The thread makes its next Dropbox call
NextCall(w) ==
    /\ runs[w].route = "token"
    /\ runs[w].pc = "done"
    /\ started < MaxRequests
    /\ started' = started + 1
    /\ runs' = [runs EXCEPT ![w] = TokenCall]
    /\ StoreUnchanged

\* The longest time the threads are followed for, in seconds
MaxClock == 900

\* time.time() moves on
Tick(seconds) ==
    /\ clock + seconds <= MaxClock
    /\ clock' = clock + seconds
    /\ UNCHANGED <<projects, updates, clients, trackers, runs, started, overlap,
                   issued, cache>>

\* Two threads of one process that file to Dropbox
InitToken ==
    /\ projects = <<>>
    /\ updates = <<>>
    /\ clients = Clients0
    /\ trackers = <<>>
    /\ runs = [w \in {"thread-1", "thread-2"} |-> TokenCall]
    /\ started = 0
    /\ overlap = {}
    /\ issued = <<>>
    /\ cache = NoToken
    /\ clock = 0

NextToken ==
    \/ \E w \in DOMAIN runs, configured \in BOOLEAN : CheckCache(w, configured)
    \/ \E w \in DOMAIN runs, response \in {NoRefresh} \cup TokenResponses :
          StoreToken(w, response)
    \/ \E w \in DOMAIN runs : StoreExpiry(w)
    \/ \E w \in DOMAIN runs : NextCall(w)
    \/ \E seconds \in {100, 200} : Tick(seconds)

SpecToken == InitToken /\ [][NextToken]_vars

-----------------------------------------------------------------------------
(* Properties of the update pipeline                                       *)

\* The errors of the collaborators that end an update run: no body, the
\* lookup failed, the extraction client raised or answered with something
\* that is not a JSON object, the store rejected the update record
CollaboratorErrors ==
    {"Could not retrieve email body from Traffic table",
     "Missing API key or job number", "Error looking up job", "Job not found",
     "APIError", "JSONDecodeError", "AttributeError: get",
     "Error writing update"}

\* The request names a job and a message, the message has a body and the
\* job is in the Projects table
Resolvable(run) ==
    /\ Truthy(run.data.jobNumber)
    /\ Truthy(run.data.internetMessageId)
    /\ Truthy(TrafficEmailBody(run.data.internetMessageId))
    /\ \E i \in DOMAIN projects : projects[i].JobNumber = run.data.jobNumber

\* C1: an update run for a valid request, with a resolvable job, a
\* non-empty message body, a valid extraction and a store that accepts
\* the write, ends with exactly one new record of the Updates table,
\* linked to the job of the request, and with at most one patch of the
\* job record.
UpdateWritesOneRecord ==
    \A w \in DOMAIN runs :
        LET run == runs[w]
        IN  (/\ run.route = "update"
             /\ run.pc = "done"
             /\ Resolvable(run)
             /\ run.failure \notin CollaboratorErrors)
            => /\ Len(run.written) = 1
               /\ updates[run.written[1]].ProjectLink \in DOMAIN projects
               /\ projects[updates[run.written[1]].ProjectLink].JobNumber
                     = run.data.jobNumber
               /\ Len(run.patches) <= 1

\* The fatal errors of the claim C2: empty body, failed lookup,
\* unparseable extraction, rejected write
FatalErrors ==
    {"Could not retrieve email body from Traffic table",
     "Error looking up job", "Job not found",
     "JSONDecodeError", "Error writing update"}

\* No step after the fatal one has run: nothing written after a failure
\* of steps 3 to 5, no patch, no post, no confirmation
NoLaterStep(run) ==
    /\ run.written = <<>>
    /\ run.calls.update_project = 0
    /\ run.patches = <<>>
    /\ run.calls.post_to_teams = 0
    /\ run.posts = <<>>
    /\ run.calls.send_confirmation = 0
    /\ run.failure = "Could not retrieve email body from Traffic table"
          => /\ run.calls.get_project = 0
             /\ run.calls.extract = 0
             /\ run.calls.write_update = 0
    /\ run.failure \in {"Error looking up job", "Job not found"}
          => /\ run.calls.extract = 0
             /\ run.calls.write_update = 0
    /\ run.failure = "JSONDecodeError" => run.calls.write_update = 0

\* C2: when a fatal step of an update run fails, a failure notification
\* is sent to senderEmail and no later step of the run executes.
FatalStepNotifiesAndStops ==
    \A w \in DOMAIN runs :
        LET run == runs[w]
        IN  (run.route = "update" /\ run.failure \in FatalErrors)
            => /\ run.pc = "done"
               /\ \E i \in DOMAIN run.mail :
                     /\ run.mail[i].kind = "failure"
                     /\ run.mail[i].to = run.data.senderEmail
               /\ NoLaterStep(run)

\* C3: an update run for a request with attachments records the outcome
\* of the filing call in results and goes on to the body fetch; the
\* filing step adds no failure notification and no failed response.
FilingNeverAborts ==
    \A w \in DOMAIN runs :
        LET run == runs[w]
        IN  (/\ run.route = "update"
             /\ run.pc \notin {"idle", "file"}
             /\ Truthy(run.data.jobNumber)
             /\ Truthy(run.data.internetMessageId)
             /\ run.data.hasAttachments
             /\ run.data.attachmentNames # <<>>)
            => /\ run.results.file.set
               /\ run.calls.file = 1
               /\ run.failure # "AttributeError: file_to_sharepoint"
               /\ (run.pc = "done" /\ run.failure = "")
                     => /\ run.response.success = PyTrue
                        /\ run.calls.send_failure = 0

\* C8: an update run whose request lacks jobNumber or internetMessageId
\* has returned 400 and has asked nothing of the store, the file module,
\* the extraction client or the notification client.
MissingFieldIsRejected ==
    \A w \in DOMAIN runs :
        LET run == runs[w]
        IN  (/\ run.route = "update"
             /\ run.pc # "idle"
             /\ ~Truthy(run.data.jobNumber) \/ ~Truthy(run.data.internetMessageId))
            => /\ run.pc = "done"
               /\ run.response.code = 400
               /\ run.response.success = PyFalse
               /\ run.calls = NoCalls
               /\ run.mail = <<>>
               /\ run.posts = <<>>
               /\ run.written = <<>>
               /\ run.patches = <<>>
               /\ updates = <<>>
               /\ projects \in InitialProjects

\* C8: a request with a job number and no message id was answered
RejectedWithoutMessageId ==
    \E w \in DOMAIN runs :
        /\ runs[w].route = "update"
        /\ runs[w].pc = "done"
        /\ Truthy(runs[w].data.jobNumber)
        /\ ~Truthy(runs[w].data.internetMessageId)
        /\ runs[w].data.hasAttachments

\* The extraction has a value for the key and it is not the stored one
Differs(run, key, current) ==
    /\ run.analysis[key] \notin {Absent, None}
    /\ run.analysis[key] # current

Placeholders == {"Unknown", "unknown", ""}

\* C10: after the change detection of an update run, the job record was
\* patched at most once; the patch holds stage, status or withClient only
\* with the value of the extraction and only if that value differs from
\* the value the lookup returned; and a withClient, stage or status that
\* differs (and is no placeholder) is in the patch.
PatchHoldsOnlyChangedFields ==
    \A w \in DOMAIN runs :
        LET run == runs[w]
            info == run.project_info
        IN  (/\ run.route = "update"
             /\ run.pc \in {"teams", "confirm", "done"}
             /\ run.results.airtable.success = PyTrue)
            => /\ Len(run.patches) <= 1
               /\ \A i \in DOMAIN run.patches :
                     LET fields == run.patches[i].fields
                     IN  /\ run.patches[i].id = run.job_record_id
                         /\ fields.Stage # Absent
                               => /\ fields.Stage = run.analysis.stage
                                  /\ Differs(run, "stage", info.stage)
                         /\ fields.Status # Absent
                               => /\ fields.Status = run.analysis.status
                                  /\ Differs(run, "status", info.status)
                         /\ fields.WithClient # Absent
                               => /\ fields.WithClient = run.analysis.withClient
                                  /\ Differs(run, "withClient", info.withClient)
               /\ Differs(run, "withClient", info.withClient)
                     => /\ Len(run.patches) = 1
                        /\ run.patches[1].fields.WithClient = run.analysis.withClient
               /\ (Differs(run, "stage", info.stage)
                   /\ run.analysis.stage \notin Placeholders)
                     => /\ Len(run.patches) = 1
                        /\ run.patches[1].fields.Stage = run.analysis.stage
               /\ (Differs(run, "status", info.status)
                   /\ run.analysis.status \notin Placeholders)
                     => /\ Len(run.patches) = 1
                        /\ run.patches[1].fields.Status = run.analysis.status

\* C10: the extraction repeats the stored stage and status and changes
\* withClient, and the patch holds withClient alone
PatchOfWithClientAlone ==
    \E w \in DOMAIN runs :
        /\ runs[w].route = "update"
        /\ runs[w].pc = "done"
        /\ runs[w].analysis.stage = runs[w].project_info.stage
        /\ runs[w].analysis.status = runs[w].project_info.status
        /\ Len(runs[w].patches) = 1
        /\ runs[w].patches[1].fields =
              [Stage |-> Absent, Status |-> Absent,
               WithClient |-> runs[w].analysis.withClient]

\* C11: when the same valid update request is run again, the run appends
\* a record of its own: after the n-th successful run the Updates table
\* holds n records, all linked to the job of the request, and the record
\* the run wrote is the last one.
ReplayAppendsRecord ==
    \A w \in DOMAIN runs :
        LET run == runs[w]
        IN  (run.route = "update" /\ run.pc = "done"
             /\ run.response.success = PyTrue)
            => /\ Len(updates) = started + 1
               /\ run.written = <<Len(updates)>>
               /\ \A i \in DOMAIN updates :
                     /\ updates[i].ProjectLink = run.job_record_id
                     /\ projects[updates[i].ProjectLink].JobNumber = run.data.jobNumber

\* C11: the second run of the request has ended and the table holds two
\* records with the same link, summary and due date
ReplayedTwice ==
    \E w \in DOMAIN runs :
        /\ runs[w].route = "update"
        /\ runs[w].pc = "done"
        /\ started = 1
        /\ Len(updates) = 2
        /\ updates[1] = updates[2]

\* C12: no step of an update or setup run changes or removes a record of
\* the Updates table: every record keeps its id, its linked job, its
\* summary and its due date, and the table only grows.
UpdateLogIsAppendOnly ==
    [][/\ Len(updates') >= Len(updates)
       /\ \A i \in DOMAIN updates : updates'[i] = updates[i]]_vars

\* C12: two update runs with different extractions have written their
\* records while a setup run created a job
LogOfTwoRunsAndSetup ==
    /\ Len(updates) >= 2
    /\ updates[1] # updates[2]
    /\ \E w \in DOMAIN runs :
          runs[w].route = "setup" /\ runs[w].results.project.success = PyTrue

\* C13: an update run whose extraction output is no JSON after the fences
\* are stripped sends a failure notification that holds the parse error,
\* answers 500 with success false, and writes no update record and no
\* patch of the job record.
ParseErrorIsNotified ==
    \A w \in DOMAIN runs :
        LET run == runs[w]
        IN  (run.route = "update" /\ run.failure = "JSONDecodeError")
            => /\ run.pc = "done"
               /\ \E i \in DOMAIN run.mail :
                     /\ run.mail[i].kind = "failure"
                     /\ run.mail[i].to = run.data.senderEmail
                     /\ run.mail[i].error =
                           "Claude returned invalid JSON: " \o DecodeErrorText
               /\ run.response.code = 500
               /\ run.response.success = PyFalse
               /\ run.calls.write_update = 0
               /\ run.written = <<>>
               /\ run.patches = <<>>
               /\ updates = <<>>
               /\ projects \in InitialProjects

\* C14: an update run that has written its update record ends with the
\* confirmation email attempted exactly once and the response 200
\* success true, whatever the patch, the post and the email did.
WrittenUpdateIsConfirmed ==
    \A w \in DOMAIN runs :
        LET run == runs[w]
        IN  (/\ run.route = "update"
             /\ run.pc = "done"
             /\ run.results.airtable.success = PyTrue)
            => /\ run.calls.send_confirmation = 1
               /\ run.calls.send_failure = 0
               /\ run.response.code = 200
               /\ run.response.success = PyTrue

\* An update run that wrote its update record and has no team or no
\* channel, neither in the request nor on the job record
WithoutChannel(run) ==
    /\ run.route = "update"
    /\ run.results.airtable.success = PyTrue
    /\ ~Truthy(run.team_id) \/ ~Truthy(run.channel_id)

\* C21: an update run that still lacks the team or the channel after the
\* fallback to the job record sends no channel post, records the step as
\* skipped, sends no failure notification, goes on to the confirmation
\* and answers success true with teamsPosted false.
MissingChannelSkipsPost ==
    \A w \in DOMAIN runs :
        LET run == runs[w]
        IN  (WithoutChannel(run) /\ run.pc = "done")
            => /\ run.posts = <<>>
               /\ run.results.teams.set
               /\ run.results.teams.skipped
               /\ run.results.teams.success = PyFalse
               /\ run.calls.send_failure = 0
               /\ run.calls.send_confirmation = 1
               /\ run.response.success = PyTrue

\* C24: the step after the write of the update record patches withClient
\* exactly when the extraction holds a value for it that is not null and
\* differs from the stored one, false included: the patch then carries
\* that value and the store, when it accepts the patch, holds it; an
\* extraction without withClient or with null never changes the field.
WithClientIsWrittenWhenChanged ==
    [][\A w \in DOMAIN runs :
          LET run == runs[w]
              id == run.job_record_id
              value == run.analysis.withClient
              changed == Differs(run, "withClient", run.project_info.withClient)
          IN  /\ (run.route = "update" /\ run.pc = "write" /\ runs'[w].pc = "teams")
                    => ~changed
              /\ \A ok \in BOOLEAN :
                    UpdateProject(w, ok)
                    => IF changed
                       THEN /\ Len(runs'[w].patches) = Len(run.patches) + 1
                            /\ runs'[w].patches[Len(runs'[w].patches)].fields.WithClient
                                  = value
                            /\ ok => projects'[id].WithClient = value
                       ELSE /\ \A i \in DOMAIN runs'[w].patches :
                                  runs'[w].patches[i].fields.WithClient = Absent
                            /\ projects'[id].WithClient = projects[id].WithClient]_vars

\* C24: the job was with the client, the extraction says it no longer
\* is, and the store holds false after the patch
WithClientSetToFalse ==
    \E w \in DOMAIN runs :
        /\ runs[w].route = "update"
        /\ runs[w].pc = "done"
        /\ runs[w].project_info.withClient = PyTrue
        /\ runs[w].analysis.withClient = PyFalse
        /\ Len(runs[w].patches) = 1
        /\ runs[w].patches[1].fields.WithClient = PyFalse
        /\ projects[runs[w].job_record_id].WithClient = PyFalse

\* The run found no change but placeholders: withClient is unchanged, and
\* a stage or status that differs is a placeholder
OnlyPlaceholdersChanged(run) ==
    /\ ~Differs(run, "withClient", run.project_info.withClient)
    /\ Differs(run, "stage", run.project_info.stage)
          => run.analysis.stage \in Placeholders
    /\ Differs(run, "status", run.project_info.status)
          => run.analysis.status \in Placeholders

\* C25: no step gives a job record a stage or a status that is a
\* placeholder; no patch of an update run carries one; a run whose
\* extraction holds a placeholder for stage or status leaves that field
\* of its job as it was; and a run that found no change but placeholders
\* sends no patch at all.
PlaceholdersAreNeverWritten ==
    /\ [][\A i \in DOMAIN projects :
             /\ projects'[i].Stage # projects[i].Stage
                   => projects'[i].Stage \notin Placeholders \cup {None, Absent}
             /\ projects'[i].Status # projects[i].Status
                   => projects'[i].Status \notin Placeholders \cup {None, Absent}]_vars
    /\ [][\A w \in DOMAIN runs, ok \in BOOLEAN :
             UpdateProject(w, ok)
             => LET id == runs[w].job_record_id
                IN  /\ runs[w].analysis.stage \in Placeholders
                          => projects'[id].Stage = projects[id].Stage
                    /\ runs[w].analysis.status \in Placeholders
                          => projects'[id].Status = projects[id].Status]_vars
    /\ [](\A w \in DOMAIN runs :
             LET run == runs[w]
             IN  (/\ run.route = "update"
                  /\ run.pc \in {"teams", "confirm", "done"}
                  /\ run.results.airtable.success = PyTrue)
                 => /\ \A i \in DOMAIN run.patches :
                          /\ run.patches[i].fields.Stage \notin Placeholders \cup {None}
                          /\ run.patches[i].fields.Status \notin Placeholders \cup {None}
                    /\ OnlyPlaceholdersChanged(run) => run.patches = <<>>)

\* C25: the extraction gave Unknown for the stage and for the status of a
\* job in Triage, the store client was called and sent nothing, and the
\* job is still in Triage
PlaceholderPatchWasDropped ==
    \E w \in DOMAIN runs :
        /\ runs[w].route = "update"
        /\ runs[w].pc = "done"
        /\ runs[w].analysis.stage = "Unknown"
        /\ runs[w].analysis.status = "Unknown"
        /\ runs[w].project_info.stage = "Triage"
        /\ runs[w].calls.update_project = 1
        /\ runs[w].patches = <<>>
        /\ projects[runs[w].job_record_id].Stage = "Triage"

\* The run sent a patch of its job record and the store did not apply it
PatchRejected(run) ==
    /\ run.route = "update"
    /\ Len(run.patches) = 1
    /\ ApplyFields(projects[run.job_record_id], run.patches[1].fields)
          # projects[run.job_record_id]

\* C28: an update run whose patch of the job record the store rejected
\* sends no failure notification, still posts to the channel and sends
\* the confirmation, and answers success true; the update record it
\* wrote just before is still in the store.
RejectedPatchIsNotFatal ==
    \A w \in DOMAIN runs :
        LET run == runs[w]
        IN  (PatchRejected(run) /\ run.pc = "done")
            => /\ run.calls.send_failure = 0
               /\ run.calls.post_to_teams = 1
               /\ run.results.teams.set
               /\ run.calls.send_confirmation = 1
               /\ \E i \in DOMAIN run.mail : run.mail[i].kind = "confirmation"
               /\ run.response.success = PyTrue
               /\ Len(run.written) = 1
               /\ run.written[1] \in DOMAIN updates
               /\ updates[run.written[1]].ProjectLink = run.job_record_id

\* A step of the update run that ends no run has failed: the filing, the
\* patch of the job record, or the channel post (skipped or not taken)
NonFatalStepFailed(run) ==
    \/ run.results.file.set /\ run.results.file.success # PyTrue
    \/ PatchRejected(run)
    \/ run.results.teams.set /\ run.results.teams.success # PyTrue

\* C29: the confirmation of an update run opens with Mostly sorted
\* exactly when the filing, the patch of the job record or the channel
\* post of that run failed, and with All sorted otherwise; whatever
\* failed, the run has posted to the channel, sent the one confirmation
\* and answered success true.
IntroTellsOfFailures ==
    \A w \in DOMAIN runs :
        LET run == runs[w]
        IN  (run.route = "update" /\ run.pc = "done"
             /\ run.calls.send_confirmation = 1)
            => /\ Len(run.mail) = 1
               /\ run.mail[1].kind = "confirmation"
               /\ run.mail[1].intro = IF NonFatalStepFailed(run)
                                      THEN "Mostly sorted" ELSE "All sorted"
               /\ run.calls.post_to_teams = 1
               /\ run.response.success = PyTrue

\* The patch the run sent for its job record, if it sent one
PatchOf(run) == IF run.patches = <<>> THEN NoFields ELSE run.patches[1].fields

\* C30: two update runs of one job run without mutual exclusion.  Both
\* update records are created; each run decides its patch against the
\* fields it read at its own lookup, whatever the job record holds by
\* then; every patch that reaches the store overwrites the fields it
\* carries, so a field patched by both runs ends with the value of the
\* later patch; and no run is told of a conflict.
ConcurrentUpdatesLastWriteWins ==
    /\ [][\A w \in DOMAIN runs :
             (runs[w].pc = "patch" /\ runs'[w].pc = "teams")
             => LET run == runs[w]
                    id == run.job_record_id
                    fields == PatchOf(runs'[w])
                IN  /\ fields.Stage # Absent
                          <=> (Differs(run, "stage", run.project_info.stage)
                               /\ run.analysis.stage \notin Placeholders)
                    /\ fields.Status # Absent
                          <=> (Differs(run, "status", run.project_info.status)
                               /\ run.analysis.status \notin Placeholders)
                    /\ fields.WithClient # Absent
                          <=> Differs(run, "withClient", run.project_info.withClient)
                    /\ projects'[id] = ApplyFields(projects[id], fields)
                    /\ fields.Stage # Absent => projects'[id].Stage = fields.Stage
                    /\ fields.Status # Absent => projects'[id].Status = fields.Status
                    /\ fields.WithClient # Absent
                          => projects'[id].WithClient = fields.WithClient]_vars
    /\ [][projects' # projects
             => \E v \in DOMAIN runs :
                   runs[v].pc = "patch" /\ runs'[v].pc = "teams"]_vars
    /\ [](\A v, w \in DOMAIN runs :
             (v # w /\ runs[v].pc = "done" /\ runs[w].pc = "done"
              /\ runs[v].route = "update" /\ runs[w].route = "update")
             => /\ Len(updates) = 2
                /\ runs[v].written # runs[w].written
                /\ \A u \in {v, w} :
                      /\ Len(runs[u].written) = 1
                      /\ updates[runs[u].written[1]].Update = runs[u].update_summary
                      /\ runs[u].calls.send_failure = 0
                      /\ runs[u].failure = ""
                      /\ runs[u].response.success = PyTrue
                      /\ Len(runs[u].mail) = 1
                      /\ runs[u].mail[1].kind = "confirmation")

\* C30: both runs read the job in Triage before either patched it, each
\* patched another stage, both have ended, and the job holds the stage
\* of one of them
TwoRunsPatchedTheStage ==
    \E v, w \in DOMAIN runs :
        /\ v # w
        /\ runs[v].pc = "done"
        /\ runs[w].pc = "done"
        /\ runs[v].project_info.stage = "Triage"
        /\ runs[w].project_info.stage = "Triage"
        /\ PatchOf(runs[v]).Stage = "Live"
        /\ PatchOf(runs[w]).Stage = "On Hold"
        /\ projects[1].Stage = "On Hold"
        /\ Len(updates) = 2


\* The job record with the fields an update run may write blanked
Frame(record) ==
    [record EXCEPT !.Stage = Absent, !.Status = Absent, !.WithClient = Absent]

Target(supplied, stored) == IF Truthy(supplied) THEN supplied ELSE stored

\* C36: the team and the channel an update run posts to are those of the
\* request when the request supplies them, and otherwise those stored on
\* the job record the run resolved, the team being the group id of the
\* record's channel URL; a supplied identifier is never replaced.
PostGoesToRequestedChannel ==
    \A w \in DOMAIN runs :
        LET run == runs[w]
            record == projects[run.job_record_id]
        IN  (run.route = "update" /\ run.job_record_id \in DOMAIN projects) =>
              /\ run.team_id = Target(run.data.teamId, GroupIdOf(record.ChannelUrl))
              /\ run.channel_id = Target(run.data.teamsChannelId,
                                         Get(record, "TeamsChannelId"))
              /\ Truthy(run.data.teamId) => run.team_id = run.data.teamId
              /\ Truthy(run.data.teamsChannelId)
                    => run.channel_id = run.data.teamsChannelId
              /\ \A i \in DOMAIN run.posts :
                    /\ run.posts[i].teamId = run.team_id
                    /\ run.posts[i].channelId = run.channel_id

\* A post went to the team of the request and to the channel of the job
\* record, the request naming a team and no channel and the record
\* holding a channel of another team
PostedToMixedTarget ==
    \E w \in DOMAIN runs :
        /\ runs[w].route = "update" /\ runs[w].posts # <<>>
        /\ runs[w].data.teamId = "e5f6-0789"
        /\ runs[w].data.teamsChannelId = None
        /\ runs[w].project_info.teamId \notin {None, "e5f6-0789"}
        /\ runs[w].posts[1].teamId = "e5f6-0789"
        /\ runs[w].posts[1].channelId = "19:job"

-----------------------------------------------------------------------------
(* Properties of the setup pipeline                                        *)

\* C4: a setup run for a request with a client code and a brief and no
\* message id, whose job number was reserved and whose job record was
\* created, ends with the confirmation email attempted, no failure
\* notification, and the response 200 success true.
DirectBriefRunsToCompletion ==
    \A w \in DOMAIN runs :
        LET run == runs[w]
        IN  (/\ run.route = "setup"
             /\ run.pc = "done"
             /\ Truthy(run.data.clientCode)
             /\ ~Truthy(run.data.internetMessageId)
             /\ BriefTruthy(run.data.brief)
             /\ Truthy(run.job_number)
             /\ run.results.project.success = PyTrue)
            => /\ run.calls.send_setup_confirmation = 1
               /\ run.calls.send_failure = 0
               /\ run.response.code = 200
               /\ run.response.success = PyTrue

\* C5: a setup run whose request carries a brief calls neither the
\* extraction client nor get_email_body, and the job record, the tracker
\* record and the channel post are made from the brief of the request.
SuppliedBriefIsUsedUnchanged ==
    \A w \in DOMAIN runs :
        LET run == runs[w]
            brief == run.data.brief
        IN  (run.route = "setup" /\ run.pc # "idle" /\ BriefTruthy(brief))
            => /\ run.calls.extract = 0
               /\ run.calls.get_email_body = 0
               /\ Truthy(run.data.clientCode) => run.brief = brief
               /\ run.results.project.success = PyTrue
                     => LET job == projects[run.results.project.recordId]
                        IN  /\ job.ProjectName = brief.jobName
                               \/ (brief.jobName = Absent /\ job.ProjectName = "New Job")
                            /\ job.Description =
                                  SelectSeq(<<brief.theJob, brief.what>>,
                                            LAMBDA part : part \notin {Absent, ""})
                            /\ job.ProjectOwner = brief.owner
                            /\ job.Live = brief.when
                               \/ (brief.when = Absent /\ job.Live = "Tbc")
                            /\ brief.updateDue # Absent => job.UpdateDue = brief.updateDue
               /\ run.results.tracker.success = PyTrue
                     => LET tracker == trackers[run.results.tracker.recordId]
                        IN  /\ tracker.TrackerNotes = brief.theJob
                            /\ tracker.Ballpark = (brief.costs # Absent)
                            /\ tracker.Spend = IF brief.costs = Absent THEN 0
                                               ELSE ParseCosts(brief.costs)
               /\ \A i \in DOMAIN run.posts :
                     LET body == run.posts[i].body
                     IN  /\ brief.theJob # Absent => body.the_job = brief.theJob
                         /\ body.owner = IF brief.owner = Absent THEN "TBC" ELSE brief.owner
                         /\ body.costs = IF brief.costs = Absent THEN "TBC" ELSE brief.costs
                         /\ body.when = IF brief.when = Absent THEN "TBC" ELSE brief.when
                         /\ brief.updateDue # Absent
                               => body.due = DueText(brief.updateDue)

\* C5: a run with a request that carries a brief and a message id has
\* created the job and the tracker and posted the brief
SuppliedBriefWasUsed ==
    \E w \in DOMAIN runs :
        /\ runs[w].route = "setup"
        /\ BriefTruthy(runs[w].data.brief)
        /\ Truthy(runs[w].data.internetMessageId)
        /\ runs[w].results.project.success = PyTrue
        /\ runs[w].results.tracker.success = PyTrue
        /\ runs[w].posts # <<>>

\* A setup run that has its job number and has not failed
Reserved(run) ==
    /\ run.route = "setup"
    /\ run.pc \in {"create", "tracker", "channel", "bind", "post", "confirm", "done"}
    /\ Truthy(run.job_number)

\* C6: two setup runs for one client that both read the same counter are
\* issued the same job number, and the counter is one more than what
\* they read.
OverlappingReservationsCollide ==
    \A v, w \in DOMAIN runs :
        (/\ v # w
         /\ Reserved(runs[v])
         /\ Reserved(runs[w])
         /\ runs[v].data.clientCode = runs[w].data.clientCode
         /\ runs[v].current_counter = runs[w].current_counter)
        => /\ runs[v].job_number = runs[w].job_number
           /\ clients[runs[v].data.clientCode].NextNum = runs[v].current_counter + 1

\* C6: two job records carry the same job number, and the client's
\* counter has advanced by one
DuplicateJobNumber ==
    \E i, j \in DOMAIN projects :
        /\ i # j
        /\ projects[i].JobNumber = projects[j].JobNumber
        /\ \E c \in DOMAIN clients :
              /\ projects[i].JobNumber = NextJobNumber(c, Clients0[c].NextNum)
              /\ clients[c].NextNum = Clients0[c].NextNum + 1

\* The job numbers issued to a client, in the order of the increments
IssuedTo(c) == SelectSeq(issued, LAMBDA e : e.clientCode = c)

\* C7: as long as no reservation of a client read the counter between
\* the read and the increment of another, the job numbers issued to the
\* client are pairwise distinct and the counter has advanced by one for
\* each of them.
SequentialReservationsAreDistinct ==
    \A c \in DOMAIN clients :
        c \notin overlap
        => /\ \A i, j \in DOMAIN IssuedTo(c) :
                 i # j => IssuedTo(c)[i].jobNumber # IssuedTo(c)[j].jobNumber
           /\ clients[c].NextNum = Clients0[c].NextNum + Len(IssuedTo(c))

\* C7: two reservations of one client, one after the other
TwoSequentialReservations ==
    \E c \in DOMAIN clients :
        /\ c \notin overlap
        /\ Len(IssuedTo(c)) >= 2

\* A setup request turned away by the validation: a 400, and nothing
\* asked of the store, the extraction client or the notification client
Rejected(run) ==
    /\ run.pc = "done"
    /\ run.response.code = 400
    /\ run.response.success = PyFalse
    /\ run.calls = NoCalls
    /\ run.mail = <<>>
    /\ run.posts = <<>>

\* C9 as stated: a setup request is accepted exactly when it has a
\* client code and exactly one of message id and brief.
SetupAcceptsExactlyOne ==
    \A w \in DOMAIN runs :
        LET run == runs[w]
            email == Truthy(run.data.internetMessageId)
            form == BriefTruthy(run.data.brief)
        IN  (run.route = "setup" /\ run.pc # "idle")
            => (~Rejected(run) <=>
                   (Truthy(run.data.clientCode) /\ (email # form)))

\* C9: a setup request is accepted exactly when it has a client code and
\* at least one of message id and brief; every other request is turned
\* away with a 400 before any store access or notification.
SetupAcceptsAtLeastOne ==
    \A w \in DOMAIN runs :
        LET run == runs[w]
            email == Truthy(run.data.internetMessageId)
            form == BriefTruthy(run.data.brief)
        IN  (run.route = "setup" /\ run.pc # "idle")
            => (~Rejected(run) <=>
                   (Truthy(run.data.clientCode) /\ (email \/ form)))

\* C9: a request with a message id and a brief has passed the validation
BothSuppliedAccepted ==
    \E w \in DOMAIN runs :
        /\ runs[w].route = "setup"
        /\ runs[w].pc = "reserve"
        /\ Truthy(runs[w].data.internetMessageId)
        /\ BriefTruthy(runs[w].data.brief)

\* A setup run that has created its job record
JobCreated(run) ==
    /\ run.route = "setup"
    /\ run.results.project.success = PyTrue
    /\ run.project_record_id \in DOMAIN projects

\* C18: a setup run for a client without a team records the channel and
\* the brief post as skipped, asks for no channel and posts nothing,
\* creates the job record and asks for the tracker, sends no failure
\* notification and answers success true.
NoTeamSetupSucceeds ==
    \A w \in DOMAIN runs :
        LET run == runs[w]
        IN  (run.pc = "done" /\ JobCreated(run) /\ ~Truthy(run.team_id))
            => /\ run.results.channel.set /\ run.results.channel.skipped
               /\ run.results.teams_post.set /\ run.results.teams_post.skipped
               /\ run.calls.setup_teams_channel = 0
               /\ run.calls.post_to_teams = 0
               /\ run.posts = <<>>
               /\ run.calls.create_tracker = 1
               /\ run.results.tracker.set
               /\ run.results.tracker.success = PyTrue
                     => run.results.tracker.recordId \in DOMAIN trackers
               /\ run.calls.send_failure = 0
               /\ run.response.success = PyTrue
               /\ run.response.code = 200

\* A step after the creation of the job record has failed: the tracker
\* was rejected, the channel was not made or not stored, or the post failed
LaterStepFailed(run) ==
    \/ run.results.tracker.set /\ run.results.tracker.success = PyFalse
    \/ /\ run.results.channel.set
       /\ ~run.results.channel.skipped
       /\ run.results.channel.success = PyFalse
    \/ /\ run.results.teams_post.set
       /\ ~run.results.teams_post.skipped
       /\ run.results.teams_post.success = PyFalse

\* C19: once a setup run has created its job record, a failure of the
\* tracker, the channel or the brief post neither ends the run nor
\* removes anything: the job record stays in the store, every later
\* step has its result, no failure notification is sent, and the run
\* ends with the confirmation attempt and success true.
LaterFailuresNeverAbort ==
    \A w \in DOMAIN runs :
        LET run == runs[w]
        IN  (/\ run.route = "setup"
             /\ run.results.project.success = PyTrue
             /\ LaterStepFailed(run))
            => /\ run.project_record_id \in DOMAIN projects
               /\ projects[run.project_record_id].JobNumber = run.job_number
               /\ run.pc = "done"
                     => /\ run.results.tracker.set
                        /\ run.results.channel.set
                        /\ run.results.teams_post.set
                        /\ run.calls.send_failure = 0
                        /\ run.calls.send_setup_confirmation = 1
                        /\ run.response.success = PyTrue

\* A setup run that reserved a job number and ended because the store
\* did not create the job record
CreationFailed(run) ==
    /\ run.route = "setup"
    /\ run.pc = "done"
    /\ Truthy(run.job_number)
    /\ run.failure = "Error creating project"

\* C20: a setup run whose job record was not created after its number
\* was reserved sends a failure notification and ends without a tracker
\* or a channel; the counter of the client stays above the one the run
\* read, so the number the store issues next is not the number of the run.
FailedCreationKeepsReservation ==
    \A w \in DOMAIN runs :
        LET run == runs[w]
            c == run.data.clientCode
        IN  CreationFailed(run)
            => /\ \E i \in DOMAIN run.mail :
                     /\ run.mail[i].kind = "failure"
                     /\ run.mail[i].error = "Error creating project"
               /\ run.response.success = PyFalse
               /\ run.calls.create_tracker = 0
               /\ run.calls.setup_teams_channel = 0
               /\ ~run.results.tracker.set
               /\ ~run.results.channel.set
               /\ \A i \in DOMAIN trackers : trackers[i].Link \in DOMAIN projects
               /\ clients[c].NextNum > run.current_counter
               /\ ReadNextJobNumber(clients, c, TRUE)[1] # run.job_number

\* A setup run that is past its brief post step
PastBriefPost(run) ==
    /\ run.route = "setup"
    /\ run.results.teams_post.set

\* C26 as stated: a setup run whose channel step did not report success
\* attempts no brief post and records the post as skipped.
PostOnlyAfterChannelSuccess ==
    \A w \in DOMAIN runs :
        LET run == runs[w]
        IN  (PastBriefPost(run) /\ run.results.channel.success # PyTrue)
            => /\ run.calls.post_to_teams = 0
               /\ run.posts = <<>>
               /\ run.results.teams_post.skipped

\* C26: a setup run posts its brief exactly when it has a team and the
\* channel step returned a channel id.  A channel step that was skipped
\* or whose channel was not created leaves no id: no post is attempted
\* and the post is recorded as skipped.  A channel that was created but
\* not stored on the job record leaves its id with a result that is no
\* success: the brief is still posted, to that channel.
PostOnlyWithChannelId ==
    \A w \in DOMAIN runs :
        LET run == runs[w]
            channel == run.results.channel
        IN  PastBriefPost(run)
            => /\ channel.set
               /\ IF Truthy(run.team_id) /\ Truthy(channel.channelId)
                  THEN /\ run.calls.post_to_teams = 1
                       /\ Len(run.posts) = 1
                       /\ run.posts[1].channelId = channel.channelId
                       /\ ~run.results.teams_post.skipped
                  ELSE /\ run.calls.post_to_teams = 0
                       /\ run.posts = <<>>
                       /\ run.results.teams_post.skipped
               /\ (channel.skipped \/ run.calls.setup_teams_channel = 0)
                     => ~Truthy(channel.channelId)
               /\ channel.success = PyTrue => Truthy(channel.channelId)
               /\ (channel.success = PyFalse /\ Truthy(channel.channelId))
                     => /\ Len(run.patches) = 1
                        /\ projects[run.project_record_id].TeamsChannelId = Absent

\* C26: the channel was created, the store did not take its id, and the
\* brief was posted to it
PostedAfterFailedBinding ==
    \E w \in DOMAIN runs :
        /\ PastBriefPost(runs[w])
        /\ runs[w].results.channel.success = PyFalse
        /\ Truthy(runs[w].results.channel.channelId)
        /\ Len(runs[w].posts) = 1
        /\ runs[w].posts[1].channelId = runs[w].results.channel.channelId

\* C27: whenever the channel step of a setup run reports success, the
\* job record the run created holds the channel id and the channel URL
\* that the creation of the channel returned.
ChannelSuccessMeansBound ==
    \A w \in DOMAIN runs :
        LET run == runs[w]
            channel == run.results.channel
            id == run.project_record_id
        IN  (run.route = "setup" /\ channel.set /\ channel.success = PyTrue)
            => /\ id \in DOMAIN projects
               /\ projects[id].JobNumber = run.job_number
               /\ channel.channelId = NewChannelId(run.job_number)
               /\ channel.channelUrl = NewChannelUrl(run.team_id, run.job_number)
               /\ projects[id].TeamsChannelId = channel.channelId
               /\ projects[id].ChannelUrl = channel.channelUrl

\* C27: a setup run has ended with a channel step that reported success,
\* next to an older job record that has a channel of its own
ChannelWasBound ==
    \E w \in DOMAIN runs :
        /\ runs[w].route = "setup"
        /\ runs[w].pc = "done"
        /\ runs[w].results.channel.success = PyTrue
        /\ runs[w].project_record_id = 2
        /\ projects[1].TeamsChannelId = "19:job"
        /\ projects[2].TeamsChannelId = NewChannelId(runs[w].job_number)


\* The run was aborted because no brief could be obtained
NoBriefObtained(run) ==
    run.failure \in {"Could not retrieve email body from Traffic table",
                     "JSONDecodeError"}

\* C33: the job number is reserved only after a brief has been obtained.
\* A run whose message body is empty or whose extraction output does not
\* parse ends with a failure notification, has reserved and created
\* nothing, and the client's counter, the jobs table and the tracker table
\* are as they were.
ReservationNeedsBrief ==
    \A w \in DOMAIN runs :
        LET run == runs[w]
        IN  run.route = "setup" =>
              /\ run.calls.get_next_job_number >= 1 => run.brief # NoBrief
              /\ NoBriefObtained(run) =>
                    /\ run.pc = "done"
                    /\ \E i \in DOMAIN run.mail : run.mail[i].kind = "failure"
                    /\ run.calls.get_next_job_number = 0
                    /\ run.calls.create_project = 0
                    /\ run.calls.create_tracker = 0
                    /\ clients = Clients0
                    /\ projects \in {<<>>} \cup InitialProjects
                    /\ trackers = <<>>



\* The errors get_next_job_number returns
ReserveErrors ==
    {"Missing API key or client code", "Client not found",
     "No Next Job # configured", "Error reserving job number"}

\* C38: a setup run holds a job number past the reservation only if the
\* store accepted the increment of the counter.  When the client is not
\* found, has no next job number, or the read or the increment fails, the
\* run holds no job number, sends a failure notification and creates no
\* job record.
JobNumberNeedsAcceptedIncrement ==
    \A w \in DOMAIN runs :
        LET run == runs[w]
        IN  run.route = "setup" =>
              /\ (run.pc \notin {"idle", "body", "extract", "reserve", "increment"}
                     /\ Truthy(run.job_number))
                    => \E i \in DOMAIN issued :
                          /\ issued[i].jobNumber = run.job_number
                          /\ issued[i].clientCode = run.data.clientCode
              /\ run.calls.create_project >= 1 => Truthy(run.job_number)
              /\ run.failure \in ReserveErrors =>
                    /\ run.pc = "done"
                    /\ run.job_number = None
                    /\ run.calls.create_project = 0
                    /\ run.project_record_id = 0
                    /\ projects \in {<<>>} \cup InitialProjects
                    /\ \E i \in DOMAIN run.mail :
                          /\ run.mail[i].kind = "failure"
                          /\ run.mail[i].error = run.failure

-----------------------------------------------------------------------------
(* Properties of both pipelines                                            *)

\* The request has the fields the validation of its route asks for
PassesValidation(run) ==
    IF run.route = "update"
    THEN Truthy(run.data.jobNumber) /\ Truthy(run.data.internetMessageId)
    ELSE /\ Truthy(run.data.clientCode)
         /\ Truthy(run.data.internetMessageId) \/ BriefTruthy(run.data.brief)

\* The confirmation emails the run has attempted
Confirmations(run) ==
    run.calls.send_confirmation + run.calls.send_setup_confirmation

\* C15: a run that passed validation and has ended attempted exactly
\* one email to the requester: a confirmation and no failure
\* notification when it answered success true, a failure notification
\* and no confirmation when it answered success false.
OneEmailPerRun ==
    \A w \in DOMAIN runs :
        LET run == runs[w]
        IN  (run.pc = "done" /\ PassesValidation(run))
            => /\ Confirmations(run) + run.calls.send_failure = 1
               /\ run.response.success \in {PyTrue, PyFalse}
               /\ run.response.success = PyTrue => Confirmations(run) = 1
               /\ run.response.success = PyFalse => run.calls.send_failure = 1

\* The exceptions a run can raise that are no JSON parse error
Exceptions ==
    {"APIError", "AttributeError: file_to_sharepoint", "AttributeError: get",
     "AttributeError: NoneType.get", "UnboundLocalError: email_body",
     "IndexError"}

\* C16: no exception leaves a run; a run that raised an exception other
\* than a parse error has attempted a failure notification and has
\* answered 500 with success false.
ExceptionsAreCaught ==
    \A w \in DOMAIN runs :
        LET run == runs[w]
        IN  /\ ~run.response.escaped
            /\ run.failure \in Exceptions
                  => /\ run.pc = "done"
                     /\ run.calls.send_failure >= 1
                     /\ run.response.code = 500
                     /\ run.response.success = PyFalse

\* The errors of the lookup of the job and of the store rejecting a
\* fatal write
BusinessErrors ==
    {"Error looking up job", "Job not found", "Error writing update",
     "Missing job number or job name", "Error creating project"}

\* C17 as stated: 400 only for a request that lacks a required field,
\* 500 only for a parse error or an exception, and 200 with success
\* false for a failed lookup or a rejected fatal write.
StatusByKindOfFailure ==
    \A w \in DOMAIN runs :
        LET run == runs[w]
        IN  run.pc = "done"
            => /\ run.response.code = 400 => ~PassesValidation(run)
               /\ run.response.code = 500
                     => run.failure \in Exceptions \cup {"JSONDecodeError"}
                        \/ run.response.escaped
               /\ (run.failure \in BusinessErrors /\ ~run.response.escaped)
                     => /\ run.response.code = 200
                        /\ run.response.success = PyFalse

\* The errors either handler answers with 400 although the request is
\* valid: no message body, and in a setup run a failed reservation or a
\* failed creation of the job record
ClientErrors ==
    {"Could not retrieve email body from Traffic table",
     "Missing API key or client code", "Error reserving job number",
     "Client not found", "No Next Job # configured",
     "Missing job number or job name", "Error creating project"}

\* C17: 400 is the answer only to a request that lacks a required field,
\* to a message without a body, and in a setup run to a failed
\* reservation or a failed creation of the job record; 500 only to a
\* parse error or an exception; 200 with success false only to an update
\* whose job lookup failed or whose update record was rejected.
StatusByStep ==
    \A w \in DOMAIN runs :
        LET run == runs[w]
        IN  run.pc = "done"
            => /\ run.response.code \in {200, 400, 500}
               /\ run.response.code = 400
                     => \/ ~PassesValidation(run) /\ run.failure = ""
                        \/ run.failure \in ClientErrors
               /\ run.response.code = 500
                     => run.failure \in Exceptions \cup {"JSONDecodeError"}
                        \/ run.response.escaped
               /\ (run.response.code = 200 /\ run.response.success # PyTrue)
                     => /\ run.route = "update"
                        /\ run.response.success = PyFalse
                        /\ run.failure \in {"Error looking up job", "Job not found",
                                            "Error writing update"}
               /\ (run.failure \in ClientErrors /\ ~run.response.escaped)
                     => run.response.code = 400

\* C17: a setup run whose job record the store rejected was answered 400,
\* and so was an update run whose message has no body
StoreFailureAnswered400 ==
    \E w \in DOMAIN runs :
        /\ runs[w].pc = "done"
        /\ PassesValidation(runs[w])
        /\ runs[w].failure \in {"Error creating project",
                                "Could not retrieve email body from Traffic table"}
        /\ runs[w].response.code = 400
        /\ runs[w].calls.send_failure = 1

\* The 5th day from Monday to Friday strictly after today
FifthWorkingDayAfter(today) ==
    CHOOSE d \in (today + 1)..(today + 9) :
        /\ Weekday(d) < 5
        /\ Cardinality({e \in (today + 1)..d : Weekday(e) < 5}) = 5

\* The due date of a run given the one that was supplied and the day
DueRule(due, supplied, today) ==
    IF Truthy(supplied)
    THEN due = supplied
    ELSE LET d == FifthWorkingDayAfter(today)
         IN  /\ due = IsoFormat(d)
             /\ Weekday(d) \notin {5, 6}
             /\ Weekday(today) < 5 => d = today + 7
             /\ Weekday(today) = 4 => Weekday(d) = 4
             /\ Weekday(today) = 0 => Weekday(d) = 0

\* C22: a step that settles the due date of a run takes the supplied due
\* date unchanged; when none is supplied it takes the 5th day from Monday
\* to Friday strictly after today, never a Saturday or a Sunday, and 7
\* calendar days after a weekday (a Friday after a Friday, a Monday after
\* a Monday).
DefaultDueIsFifthWorkingDay ==
    [][\A w \in DOMAIN runs, today \in Days :
          /\ (\E reply \in DueReplies : Extract(w, reply, today, TRUE))
                => DueRule(runs'[w].update_due,
                           Get(runs'[w].analysis, "updateDue"), today)
          /\ (/\ runs'[w].pc = "reserve"
              /\ \/ \E reply \in DueSetupReplies : SetupExtract(w, reply, today, TRUE)
                 \/ \E data \in DueSetupRequests : StartSetup(w, data, today))
                => DueRule(runs'[w].update_due,
                           Get(runs'[w].brief, "updateDue"), today)]_vars

\* C22: a run of either route was given no due date and took day 11,
\* the Friday after the first Friday
DefaultDueWasComputed ==
    \/ \E w \in DOMAIN runs :
          /\ runs[w].route = "update"
          /\ runs[w].pc = "done"
          /\ ~Truthy(Get(runs[w].analysis, "updateDue"))
          /\ runs[w].update_due = IsoFormat(11)
    \/ \E w \in DOMAIN runs :
          /\ runs[w].route = "setup"
          /\ runs[w].pc = "done"
          /\ ~Truthy(Get(runs[w].brief, "updateDue"))
          /\ runs[w].update_due = IsoFormat(11)

\* Texts without a fence: prose, blanks, a payload among blanks
Unfenced ==
    {<<>>, <<PROSE>>, <<SP, PROSE, NL>>, <<PROSE, NL, PROSE>>}
        \cup BareOutputs(FenceAnalyses \cup FenceBriefs)

EmailCalls(run) ==
    run.calls.send_failure + run.calls.send_confirmation
        + run.calls.send_setup_confirmation

\* C31: every call of a notification operation returns a result with a
\* success flag and raises nothing, whatever the sender name, the
\* identifiers and the endpoints are: each email call of a run has left
\* an email with its flag, each channel post call has left its result,
\* and no run has ended by an IndexError.
NotificationsNeverRaise ==
    \A w \in DOMAIN runs :
        LET run == runs[w]
        IN  /\ Len(run.mail) = EmailCalls(run)
            /\ run.failure # "IndexError"
            /\ run.response.error # "IndexError"
            /\ (run.route = "update" /\ run.calls.post_to_teams = 1)
                  => run.results.teams.set
            /\ (run.route = "setup" /\ run.calls.post_to_teams = 1)
                  => run.results.teams_post.set


\* The write and notification operations of the two orchestrators
Steps ==
    {"write_update", "update_project", "get_next_job_number", "create_project",
     "create_tracker", "setup_teams_channel", "post_to_teams",
     "send_confirmation", "send_setup_confirmation"}

\* C32: no step is retried.  Within one run each write or notification
\* operation is called at most once, whether it succeeded or failed, and
\* no step of an unfinished run calls an operation the run called before.
NoStepIsRetried ==
    /\ [](\A w \in DOMAIN runs : \A s \in Steps : runs[w].calls[s] <= 1)
    /\ [][\A w \in DOMAIN runs : \A s \in Steps :
             (runs[w].calls[s] >= 1 /\ runs[w].pc # "done")
                => runs'[w].calls[s] = runs[w].calls[s]]_vars

\* A finished update run whose channel post failed and was made once
FailedPostWasMadeOnce ==
    \E w \in DOMAIN runs :
        /\ runs[w].route = "update" /\ runs[w].pc = "done"
        /\ runs[w].results.teams.set /\ ~runs[w].results.teams.skipped
        /\ runs[w].results.teams.success = PyFalse
        /\ runs[w].calls.post_to_teams = 1
        /\ runs[w].calls.send_confirmation = 1


\* The job record a step of setup worker w has just added to the table
CreatedBy(w) == projects'[Len(projects')]

\* C34: every job record the setup pipeline creates starts in stage Triage
\* with status Incoming, has an update-due date that is not empty (the one
\* of the brief, else the 5th working day after the day of the request)
\* and a live value (the one of the brief, else Tbc); the table only grows
\* by such a record, and only at the creation step of a setup run.
CreatedJobsStartInTriage ==
    /\ [][\A w \in DOMAIN runs :
             (runs[w].route = "setup" /\ runs[w].pc = "create"
                 /\ runs'[w].pc = "tracker")
                => /\ projects' = Append(projects, CreatedBy(w))
                   /\ CreatedBy(w).JobNumber = runs[w].job_number
                   /\ CreatedBy(w).Stage = "Triage"
                   /\ CreatedBy(w).Status = "Incoming"
                   /\ CreatedBy(w).UpdateDue \notin {Absent, None, ""}
                   /\ \E today \in Todays :
                         DueRule(CreatedBy(w).UpdateDue,
                                 Get(runs[w].brief, "updateDue"), today)
                   /\ CreatedBy(w).Live \notin {Absent, None, ""}
                   /\ CreatedBy(w).Live =
                         IF Truthy(Get(runs[w].brief, "when"))
                         THEN Get(runs[w].brief, "when") ELSE "Tbc"]_vars
    /\ [][Len(projects') # Len(projects)
             => \E w \in DOMAIN runs :
                   /\ runs[w].route = "setup" /\ runs[w].pc = "create"
                   /\ runs'[w].pc = "tracker"]_vars

\* A setup run created a job from a brief that names neither a due date
\* nor a month: the record is in Triage, due on day 11, live Tbc
JobCreatedWithDefaults ==
    \E w \in DOMAIN runs :
        /\ runs[w].route = "setup" /\ runs[w].results.project.success = PyTrue
        /\ ~Truthy(Get(runs[w].brief, "updateDue"))
        /\ ~Truthy(Get(runs[w].brief, "when"))
        /\ runs[w].project_record_id \in DOMAIN projects
        /\ LET p == projects[runs[w].project_record_id]
           IN  /\ p.Stage = "Triage" /\ p.Status = "Incoming"
               /\ p.UpdateDue = "day-11" /\ p.Live = "Tbc"


\* The entry k of the results record of a run holds a result
NonNull(run, k) ==
    IF k = "brief" THEN run.results.brief # NoBrief ELSE run.results[k].set

\* The steps that write the entry k of the results record
WrittenAt(route, k) ==
    IF route = "update"
    THEN CASE k = "file" -> {"file"}
           [] k = "airtable" -> {"write"}
           [] k = "teams" -> {"teams"}
           [] k = "email" -> {"confirm"}
    ELSE CASE k = "brief" -> {"idle", "extract"}
           [] k = "project" -> {"create"}
           [] k = "tracker" -> {"tracker"}
           [] k = "channel" -> {"channel", "bind"}
           [] k = "teams_post" -> {"post"}
           [] k = "email" -> {"confirm"}

\* The entries that belong to the steps after the step at pc
EntriesAfter(route, pc) ==
    IF route = "update"
    THEN CASE pc = "idle" -> {"file", "airtable", "teams", "email"}
           [] pc \in {"file", "body", "lookup", "extract"} ->
                 {"airtable", "teams", "email"}
           [] pc \in {"write", "patch"} -> {"teams", "email"}
           [] pc = "teams" -> {"email"}
           [] OTHER -> {}
    ELSE CASE pc \in {"idle", "body", "extract", "reserve", "increment"} ->
                 {"project", "tracker", "channel", "teams_post", "email"}
           [] pc = "create" -> {"tracker", "channel", "teams_post", "email"}
           [] pc = "tracker" -> {"channel", "teams_post", "email"}
           [] pc \in {"channel", "bind"} -> {"teams_post", "email"}
           [] pc = "post" -> {"email"}
           [] OTHER -> {}

\* C37: an entry of the results record of a run becomes non-null only at
\* the step it belongs to, and after every step of a run, the step that
\* aborts the run included, the entries of all later steps are null.
ResultsFollowTheSteps ==
    [][\A w \in DOMAIN runs :
          runs[w].pc # "done" =>
             /\ \A k \in DOMAIN runs'[w].results :
                   (NonNull(runs'[w], k) /\ ~NonNull(runs[w], k))
                      => runs[w].pc \in WrittenAt(runs[w].route, k)
             /\ \A k \in EntriesAfter(runs[w].route, runs[w].pc) :
                   ~NonNull(runs'[w], k)]_vars

\* An update run was aborted at the write step: the entry of the write is
\* a failure, the entries of the channel post and of the email are null
AbortedAtWrite ==
    \E w \in DOMAIN runs :
        /\ runs[w].route = "update" /\ runs[w].pc = "done"
        /\ runs[w].failure = "Error writing update"
        /\ ~runs[w].response.escaped
        /\ runs[w].results.airtable = Result(PyFalse, FALSE, 0)
        /\ runs[w].results.teams = NoResult
        /\ runs[w].results.email = NoResult


\* The failure emails a run has handed to the postman
FailureEmails(run) == {i \in DOMAIN run.mail : run.mail[i].kind = "failure"}

\* The job lookup of a file run failed, or its filing reported failure
LookupOrFilingFailed(run) ==
    \/ run.calls.get_project = 1 /\ run.job_record_id = 0
    \/ run.results.file.set /\ run.results.file.success # PyTrue

\* C39: in the file worker filing is fatal.  The channel post and the
\* confirmation email are attempted only after a filing result that
\* reports success, that is with at least one file moved or the message
\* artifact saved; a run whose job lookup fails or whose filing reports
\* failure sends exactly one failure email, posts nothing to the channel
\* and answers success false.
FilingIsFatalInFileWorker ==
    \A w \in DOMAIN runs :
        LET run == runs[w]
        IN  run.route = "file" =>
              /\ (run.calls.post_to_teams >= 1 \/ run.calls.send_confirmation >= 1)
                    => /\ run.results.file.set
                       /\ run.results.file.success = PyTrue
                       /\ Len(run.results.file.filesMoved) >= 1
              /\ LookupOrFilingFailed(run) =>
                    /\ run.pc = "done"
                    /\ Cardinality(FailureEmails(run)) = 1
                    /\ run.calls.send_failure = 1
                    /\ run.calls.post_to_teams = 0 /\ run.posts = <<>>
                    /\ run.calls.send_confirmation = 0
                    /\ ~run.response.escaped
                    /\ run.response.success = PyFalse


\* The token and the expiry the refresh of thread w obtained
RefreshedBy(w) ==
    [access_token |-> runs[w].result.access_token,
     token_expires_at |-> ExpiresAt(clock, runs[w].result)]

\* The cache is more than 300 seconds before its recorded expiry
FarFromExpiry == Truthy(cache.access_token) /\ clock + 300 < cache.token_expires_at

\* C40: a call returns the cached token without a refresh only while the
\* time is more than 300 seconds before the recorded expiry, and otherwise
\* goes on to a refresh (or raises for missing credentials); a refresh that
\* fails leaves the token and the expiry as they were; when a refresh
\* finishes and no other refresh is under way, the cache holds the token
\* and the expiry of that refresh, the one that finished last, also when
\* another thread refreshed at the same time.
TokenCacheHoldsLastRefresh ==
    [][\A w \in DOMAIN runs :
          runs[w].route = "token" =>
             /\ (runs[w].pc = "idle" /\ runs'[w].pc = "done" /\ ~runs'[w].raised)
                   => /\ FarFromExpiry
                      /\ cache' = cache
                      /\ runs'[w].returned = cache.access_token
             /\ (runs[w].pc = "idle" /\ runs'[w].pc # "idle" /\ ~FarFromExpiry)
                   => /\ runs'[w].pc = "refresh" \/ runs'[w].raised
                      /\ cache' = cache
             /\ (runs[w].pc = "refresh" /\ runs'[w].pc = "done")
                   => runs'[w].raised /\ cache' = cache
             /\ (/\ runs[w].pc = "expiry" /\ runs'[w].pc = "done"
                 /\ \A v \in DOMAIN runs \ {w} : runs[v].pc # "expiry")
                   => cache' = RefreshedBy(w)]_vars

====
